---- MODULE Spec2Model ----
(***************************************************************************)
(* caddysnake.py: one HTTP/1.1 connection served by the WSGI connection    *)
(* loop (_handle_wsgi_connection, _call_wsgi_app) or by the ASGI           *)
(* connection loop (_handle_asgi_connection, _handle_asgi_http,            *)
(* _handle_asgi_websocket with _ws_read_loop), and the server process      *)
(* around the connections (run_asgi_server, _run_wsgi_server_async,        *)
(* _handle_asgi_lifespan); and the functions under them that are followed  *)
(* over bytes: _read_http_request and _parse_host_header on the bytes of a *)
(* connection, _build_wsgi_environ on the headers of a request, and        *)
(* ws_build_frame and ws_read_frame on the bytes of a frame.               *)
(*                                                                         *)
(* Text is a sequence of one-character strings, so that lower(), "in",     *)
(* split() and str() are computed and not assumed.  The bytes handed to    *)
(* writer.write are kept as a sequence of tokens: a status line, a header  *)
(* line "name: value\r\n", a bare "\r\n", a hexadecimal chunk-size line    *)
(* "<hex>\r\n", and a run of body bytes.                                   *)
(***************************************************************************)
EXTENDS Integers, Sequences, FiniteSets, TLC

\* ------------------------------------------------------------------ bounds
\* requests read on the connection
MaxRequests == 2
\* messages the ASGI application sends for one request
MaxSends == 3
\* receive() calls the ASGI application makes for one request
MaxReceives == 2
\* messages the WebSocket application sends on one connection
MaxWsSends == 2
\* frames the WebSocket peer sends on one connection
MaxFrames == 2
\* connections the server accepts
MaxConns == 2
\* messages the application sends on the lifespan scope
MaxLsSends == 2
\* chunks of a chunked request body
MaxChunks == 2
\* trailer fields after the last chunk of a chunked request body
MaxTrailers == 1
\* headers of a request handed to _build_wsgi_environ
MaxHeaders == 3
\* connections open at a time that submit to the worker pool
MaxPoolConns == 25
\* payload lengths tried on each side of a limit of the frame length encodings
Margin == 0

\* ------------------------------------------------------------------- text
UpperChars == <<"A","B","C","D","E","F","G","H","I","J","K","L","M",
                "N","O","P","Q","R","S","T","U","V","W","X","Y","Z">>
LowerChars == <<"a","b","c","d","e","f","g","h","i","j","k","l","m",
                "n","o","p","q","r","s","t","u","v","w","x","y","z">>
DecDigits == <<"0","1","2","3","4","5","6","7","8","9">>
HexDigits == <<"0","1","2","3","4","5","6","7","8","9","a","b","c","d","e","f">>

\* str.lower(), one character
LowerChar(c) ==
  IF \E i \in DOMAIN UpperChars : UpperChars[i] = c
    THEN LowerChars[CHOOSE i \in DOMAIN UpperChars : UpperChars[i] = c]
    ELSE c

\* str.lower()
Lower(s) == [i \in 1..Len(s) |-> LowerChar(s[i])]

\* needle in hay
Contains(hay, needle) ==
  \E i \in 0..(Len(hay) - Len(needle)) : SubSeq(hay, i + 1, i + Len(needle)) = needle

\* str(n) of a non-negative integer
RECURSIVE Str(_)
Str(n) == IF n < 10 THEN <<DecDigits[n + 1]>>
          ELSE Str(n \div 10) \o <<DecDigits[(n % 10) + 1]>>

\* f"{n:x}"
RECURSIVE Hex(_)
Hex(n) == IF n < 16 THEN <<HexDigits[n + 1]>>
          ELSE Hex(n \div 16) \o <<HexDigits[(n % 16) + 1]>>

\* s.split(" ", 1)[0]
FirstWord(s) ==
  IF \E i \in 1..Len(s) : s[i] = " "
    THEN SubSeq(s, 1, (CHOOSE i \in 1..Len(s) : s[i] = " " /\ \A j \in 1..(i - 1) : s[j] # " ") - 1)
    ELSE s

IsDigit(c) == \E i \in DOMAIN DecDigits : DecDigits[i] = c
DigitVal(c) == (CHOOSE i \in DOMAIN DecDigits : DecDigits[i] = c) - 1

\* int(s) of a decimal string; -1 stands for ValueError
RECURSIVE IntOf(_)
IntOf(s) ==
  IF Len(s) = 0 \/ \E i \in 1..Len(s) : ~IsDigit(s[i]) THEN -1
  ELSE IF Len(s) = 1 THEN DigitVal(s[1])
  ELSE IntOf(SubSeq(s, 1, Len(s) - 1)) * 10 + DigitVal(s[Len(s)])

\* b"".join(chunks)
RECURSIVE Join(_)
Join(chunks) == IF chunks = <<>> THEN <<>> ELSE Head(chunks) \o Join(Tail(chunks))

\* --------------------------------------------------------- header strings
ContentLength == <<"C","o","n","t","e","n","t","-","L","e","n","g","t","h">>
ContentLengthUpper == <<"C","O","N","T","E","N","T","-","L","E","N","G","T","H">>
content_length == <<"c","o","n","t","e","n","t","-","l","e","n","g","t","h">>
ContentType == <<"C","o","n","t","e","n","t","-","T","y","p","e">>
TransferEncoding == <<"T","r","a","n","s","f","e","r","-","E","n","c","o","d","i","n","g">>
transfer_encoding == <<"t","r","a","n","s","f","e","r","-","e","n","c","o","d","i","n","g">>
text_plain == <<"t","e","x","t","/","p","l","a","i","n">>
chunked == <<"c","h","u","n","k","e","d">>
close == <<"c","l","o","s","e">>
Close == <<"C","l","o","s","e">>
upgrade == <<"u","p","g","r","a","d","e">>
Upgrade == <<"U","p","g","r","a","d","e">>
websocket == <<"w","e","b","s","o","c","k","e","t">>
WebSocket == <<"W","e","b","S","o","c","k","e","t">>
GET == <<"G","E","T">>
POST == <<"P","O","S","T">>
InternalServerError ==
  <<"I","n","t","e","r","n","a","l"," ","S","e","r","v","e","r"," ","E","r","r","o","r">>

\* ------------------------------------------------------------ wire tokens
Tok(t, n, s, v) == [t |-> t, n |-> n, s |-> s, v |-> v]
\* _get_status_line(code): "HTTP/1.1 <code> <phrase>\r\n"
StatusLine(code) == Tok("status", code, <<>>, <<>>)
\* "name: value\r\n"
HeaderLine(name, value) == Tok("header", 0, name, value)
\* "\r\n"
CRLF == Tok("crlf", 0, <<>>, <<>>)
\* "<hex of n>\r\n"
HexLine(n) == Tok("hex", 0, Hex(n), <<>>)
\* body bytes
Data(bytes) == Tok("data", 0, bytes, <<>>)

\* The bytes of the fixed 500 response of the two ASGI handlers:
\* b"HTTP/1.1 500 Internal Server Error\r\nContent-Length: 21\r\n\r\nInternal Server Error"
Fixed500 ==
  <<StatusLine(500), HeaderLine(ContentLength, Str(Len(InternalServerError))), CRLF,
    Data(InternalServerError)>>

\* --------------------------------------------------------------- requests
\* What _read_http_request returns, as far as the connection loops read it:
\* the method, raw_headers.get("upgrade", ""), raw_headers.get("connection", "")
\* and the buffered body.
Req(method, upg, conn, body) ==
  [method |-> method, upgrade |-> upg, connection |-> conn, body |-> body]

Requests ==
  { Req(GET, <<>>, <<>>, <<>>),
    Req(POST, <<>>, Close, <<"h","i">>),
    Req(GET, WebSocket, Upgrade, <<>>),
    Req(POST, websocket, Upgrade, <<>>) }

NoRequest == Req(<<>>, <<>>, <<>>, <<>>)

\* "close" in connection.lower()
WantsCloseLowerless(req) == Contains(req.connection, close)
WantsClose(req) == Contains(Lower(req.connection), close)

\* is_websocket of _handle_asgi_connection
IsWebsocketAnyMethod(req) ==
  /\ Lower(req.upgrade) = websocket
  /\ Contains(Lower(req.connection), upgrade)
IsWebsocket(req) ==
  /\ req.method = GET
  /\ Lower(req.upgrade) = websocket
  /\ Contains(Lower(req.connection), upgrade)

\* ------------------------------------------------- synchronous application
\* One run of a WSGI application, as _call_wsgi_app sees it: the
\* start_response calls it makes while being called (status string, header
\* list, whether exc_info is given), whether it lets an exception raised by
\* start_response propagate, whether it raises itself after those calls, the
\* chunks its result yields, whether iterating the result raises after them,
\* whether the result has a close method, and whether that method raises.
H_none == <<>>
H_type == << <<ContentType, text_plain>> >>
H_cl == << <<ContentLength, Str(7)>> >>
H_cl_lower == << <<ContentType, text_plain>>, <<content_length, Str(7)>> >>
H_cl_upper == << <<ContentLengthUpper, Str(7)>> >>
H_cl_twice == << <<ContentLength, Str(7)>>, <<content_length, Str(7)>> >>

S_200 == <<"2","0","0"," ","O","K">>
S_404 == <<"4","0","4"," ","N","o","t"," ","F","o","u","n","d">>
S_bad == <<"O","K">>

Call(status, headers, exc) == [status |-> status, headers |-> headers, exc |-> exc]

FirstCalls ==
  { Call(S_200, h, FALSE) : h \in {H_none, H_type, H_cl, H_cl_lower, H_cl_upper, H_cl_twice} }
    \cup { Call(S_404, H_none, FALSE), Call(S_bad, H_type, FALSE), Call(S_200, H_type, TRUE) }
LaterCalls == { Call(S_404, H_cl, FALSE), Call(S_404, H_cl, TRUE) }
CallSeqs == {<<>>} \cup { <<c>> : c \in FirstCalls }
              \cup { <<c, d>> : c \in FirstCalls, d \in LaterCalls }

ChunkSeqs == { <<>>, << <<>> >>, << <<"x">> >>, << <<"x">>, <<>>, <<"y","z">> >> }

WsgiApps ==
  { b \in [calls : CallSeqs, propagate : BOOLEAN, raises : BOOLEAN,
           chunks : ChunkSeqs, iterRaises : BOOLEAN, hasClose : BOOLEAN,
           closeRaises : BOOLEAN] : b.closeRaises => b.hasClose }

NoApp ==
  [calls |-> <<>>, propagate |-> FALSE, raises |-> FALSE,
   chunks |-> <<>>, iterRaises |-> FALSE, hasClose |-> FALSE, closeRaises |-> FALSE]

\* start_response over the calls the application makes: response_started
\* after them, and whether a call raised into the application and was let
\* propagate (the application then stops).
RECURSIVE RunCalls(_, _, _)
RunCalls(started, calls, propagate) ==
  IF calls = <<>> THEN [started |-> started, raised |-> FALSE]
  ELSE LET c == Head(calls) IN
    IF c.exc /\ started # <<>>
      THEN IF propagate THEN [started |-> started, raised |-> TRUE]
           ELSE RunCalls(started, Tail(calls), propagate)
      ELSE RunCalls(Append(started, <<c.status, c.headers>>), Tail(calls), propagate)

Error500(closes) ==
  [status_code |-> 500, headers |-> << <<ContentType, text_plain>> >>,
   body |-> InternalServerError, closes |-> closes, raised |-> FALSE]

\* _call_wsgi_app: (status_code, headers_list, body_bytes), how often
\* result.close() was called, and whether the call ended with an exception
\* instead of the tuple: result.close() runs in the finally clause, outside
\* the try that turns exceptions into the 500 tuple.
CallWsgiAppKeepsAppOutput(b) ==
  LET r == RunCalls(<<>>, b.calls, b.propagate)
      appRaised == r.raised \/ b.raises
      closes == IF ~appRaised /\ b.hasClose THEN 1 ELSE 0
      output == SelectSeq(b.chunks, LAMBDA c : c # <<>>)
  IN IF r.started = <<>> THEN Error500(closes)
     ELSE LET code == IntOf(FirstWord(r.started[1][1])) IN
       IF code = -1 THEN Error500(closes)
       ELSE [status_code |-> code, headers |-> r.started[1][2],
             body |-> Join(output), closes |-> closes, raised |-> FALSE]

CallWsgiApp(b) ==
  LET r == RunCalls(<<>>, b.calls, b.propagate)
      appRaised == r.raised \/ b.raises
      closes == IF ~appRaised /\ b.hasClose THEN 1 ELSE 0
      output == SelectSeq(b.chunks, LAMBDA c : c # <<>>)
      res == IF appRaised \/ b.iterRaises THEN Error500(closes)
             ELSE IF r.started = <<>> THEN Error500(closes)
             ELSE LET code == IntOf(FirstWord(r.started[1][1])) IN
               IF code = -1 THEN Error500(closes)
               ELSE [status_code |-> code, headers |-> r.started[1][2],
                     body |-> Join(output), closes |-> closes, raised |-> FALSE]
  IN [res EXCEPT !.raised = (closes = 1 /\ b.closeRaises)]

NoResult == [status_code |-> 0, headers |-> <<>>, body |-> <<>>, closes |-> 0, raised |-> FALSE]

\* has_content_length after the header loop of _handle_wsgi_connection
HasContentLength(headers) ==
  \E i \in 1..Len(headers) : Lower(headers[i][1]) = content_length

HeaderLines(headers) == [i \in 1..Len(headers) |-> HeaderLine(headers[i][1], headers[i][2])]

\* buf of _handle_wsgi_connection: the bytes of one WSGI response
WsgiResponseBufAlwaysAdds(res) ==
  <<StatusLine(res.status_code)>> \o HeaderLines(res.headers)
    \o <<HeaderLine(ContentLength, Str(Len(res.body)))>>
    \o <<CRLF>>
    \o (IF res.body # <<>> THEN <<Data(res.body)>> ELSE <<>>)

WsgiResponseBufSkipsEmptyBody(res) ==
  IF res.body = <<>> THEN <<>>
  ELSE <<StatusLine(res.status_code)>> \o HeaderLines(res.headers)
         \o (IF ~HasContentLength(res.headers)
               THEN <<HeaderLine(ContentLength, Str(Len(res.body)))>> ELSE <<>>)
         \o <<CRLF>> \o <<Data(res.body)>>

WsgiResponseBuf(res) ==
  <<StatusLine(res.status_code)>> \o HeaderLines(res.headers)
    \o (IF ~HasContentLength(res.headers)
          THEN <<HeaderLine(ContentLength, Str(Len(res.body)))>> ELSE <<>>)
    \o <<CRLF>>
    \o (IF res.body # <<>> THEN <<Data(res.body)>> ELSE <<>>)

\* ---------------------------------------------------------- request bytes
\* The bytes of a connection are a sequence of one-character strings; a line
\* ends with "\r", "\n".
EOL == <<"\r", "\n">>
HTTP11 == <<"H","T","T","P","/","1",".","1">>
Host == <<"H","o","s","t">>
host == <<"h","o","s","t">>
localhost == <<"l","o","c","a","l","h","o","s","t">>
connection == <<"c","o","n","n","e","c","t","i","o","n">>

\* s[i:] and s[:i], with Python's 0-based i
From(s, i) == SubSeq(s, i + 1, Len(s))
Upto(s, i) == SubSeq(s, 1, i)

\* s.startswith(prefix)
StartsWith(s, prefix) == Len(s) >= Len(prefix) /\ Upto(s, Len(prefix)) = prefix

\* s.find(sep): Python's 0-based index of the first occurrence, -1 for none
Find(s, sep) ==
  IF Contains(s, sep)
    THEN CHOOSE i \in 0..(Len(s) - Len(sep)) :
           /\ SubSeq(s, i + 1, i + Len(sep)) = sep
           /\ \A j \in 0..(i - 1) : SubSeq(s, j + 1, j + Len(sep)) # sep
    ELSE -1

\* s.rfind(sep)
RFind(s, sep) ==
  IF Contains(s, sep)
    THEN CHOOSE i \in 0..(Len(s) - Len(sep)) :
           /\ SubSeq(s, i + 1, i + Len(sep)) = sep
           /\ \A j \in (i + 1)..(Len(s) - Len(sep)) : SubSeq(s, j + 1, j + Len(sep)) # sep
    ELSE -1

\* s.split(sep, maxsplit); maxsplit = -1 for no limit
RECURSIVE Split(_, _, _)
Split(s, sep, maxsplit) ==
  LET i == Find(s, sep)
  IN IF i < 0 \/ maxsplit = 0 THEN <<s>>
     ELSE <<Upto(s, i)>> \o Split(From(s, i + Len(sep)), sep, maxsplit - 1)

\* s.strip()
Strip(s) ==
  LET inked == { i \in 1..Len(s) : s[i] \notin {" ", "\t", "\r", "\n"} }
  IN IF inked = {} THEN <<>>
     ELSE SubSeq(s, CHOOSE i \in inked : \A j \in inked : i <= j,
                    CHOOSE i \in inked : \A j \in inked : j <= i)

\* int(s, 16) of a string of hexadecimal digits; -1 stands for ValueError
\* (signs, underscores and a 0x prefix, which int() also reads, are in none
\* of the inputs)
RECURSIVE IntOf16(_)
IntOf16(s) ==
  LET val(c) == (CHOOSE i \in DOMAIN HexDigits : HexDigits[i] = LowerChar(c)) - 1
  IN IF Len(s) = 0 \/ \E i \in 1..Len(s) : \A k \in DOMAIN HexDigits : HexDigits[k] # LowerChar(s[i])
       THEN -1
     ELSE IF Len(s) = 1 THEN val(s[1])
     ELSE IntOf16(Upto(s, Len(s) - 1)) * 16 + val(s[Len(s)])

\* The header loop of _read_http_request: the lines with a colon, as
\* (name.strip().lower(), value.strip())
ParseHeaders(lines) ==
  LET withColon == SelectSeq(lines, LAMBDA l : Find(l, <<":">>) >= 0)
  IN [i \in 1..Len(withColon) |->
        LET l == withColon[i]
            colon == Find(l, <<":">>)
        IN <<Lower(Strip(Upto(l, colon))), Strip(From(l, colon + 1))>>]

\* raw_headers.get(name, default): of the headers of one name the last
RawGet(headers, name, default) ==
  LET at == { i \in 1..Len(headers) : headers[i][1] = name }
  IN IF at = {} THEN default
     ELSE headers[CHOOSE i \in at : \A j \in at : j <= i][2]

\* await reader.readline(): the bytes to the first "\n", or to the end of
\* the stream
ReadLine(s) ==
  LET i == Find(s, <<"\n">>)
  IN IF i < 0 THEN [line |-> s, rest |-> <<>>]
     ELSE [line |-> Upto(s, i + 1), rest |-> From(s, i + 1)]

\* What a read of the body comes to: the body and the bytes left unread, or
\* the exception raised
BodyRead(result, body, rest) == [result |-> result, body |-> body, rest |-> rest]

\* The chunked loop of _read_http_request
RECURSIVE ReadChunks(_, _)
ReadChunks(s, chunks) ==
  LET sizeLine == ReadLine(s)
      chunk_size == IntOf16(Strip(sizeLine.line))
  IN IF chunk_size < 0 THEN BodyRead("ValueError", <<>>, sizeLine.rest)
     ELSE IF chunk_size = 0 THEN BodyRead("request", chunks, ReadLine(sizeLine.rest).rest)
     ELSE IF Len(sizeLine.rest) < chunk_size THEN BodyRead("IncompleteReadError", <<>>, <<>>)
     ELSE ReadChunks(ReadLine(From(sizeLine.rest, chunk_size)).rest,
                     chunks \o Upto(sizeLine.rest, chunk_size))

\* The body selection of _read_http_request
ReadBody(headers, s) ==
  LET cl == RawGet(headers, content_length, <<>>)
      te == RawGet(headers, transfer_encoding, <<>>)
  IN IF cl # <<>>
       THEN IF IntOf(cl) < 0 THEN BodyRead("ValueError", <<>>, s)
            ELSE IF Len(s) < IntOf(cl) THEN BodyRead("IncompleteReadError", <<>>, <<>>)
            ELSE BodyRead("request", Upto(s, IntOf(cl)), From(s, IntOf(cl)))
     ELSE IF Contains(Lower(te), chunked) THEN ReadChunks(s, <<>>)
     ELSE BodyRead("request", <<>>, s)

\* What a call of _read_http_request comes to
Parsed(result, method, path, headers, body, rest) ==
  [result |-> result, method |-> method, path |-> path, headers |-> headers,
   body |-> body, rest |-> rest]
NoParse(result, rest) == Parsed(result, <<>>, <<>>, <<>>, <<>>, rest)

\* _read_http_request(reader) on a stream the peer has ended: None, a
\* request, or the exception raised
ReadHttpRequest(s) ==
  LET end == Find(s, EOL \o EOL)
  IN IF end < 0 THEN NoParse("None", <<>>)
     ELSE LET lines == Split(Upto(s, end), EOL, -1)
              parts == Split(lines[1], <<" ">>, 2)
              headers == ParseHeaders(Tail(lines))
              read == ReadBody(headers, From(s, end + 4))
          IN IF Len(parts) # 3 THEN NoParse("None", From(s, end + 4))
             ELSE IF read.result # "request" THEN NoParse(read.result, read.rest)
             ELSE Parsed("request", parts[1], parts[2], headers, read.body, read.rest)

\* _parse_host_header(host_str): the port, -1 standing for the ValueError
\* of an int() that no except clause covers
ParseHostHeader(host_str) ==
  LET bracket_end == Find(host_str, <<"]">>)
      rest == From(host_str, bracket_end + 1)
      colon == RFind(host_str, <<":">>)
  IN IF host_str = <<>> THEN 80
     ELSE IF StartsWith(host_str, <<"[">>) /\ bracket_end # -1
       THEN IF StartsWith(rest, <<":">>) THEN IntOf(From(rest, 1)) ELSE 80
     ELSE IF colon >= 0 /\ IntOf(From(host_str, colon + 1)) >= 0
       THEN IntOf(From(host_str, colon + 1))
     ELSE 80

\* What a peer sends: a request head, and a body as it is or in the chunked
\* transfer coding, with chunk extensions and trailer fields.
HeaderBytes(h) == h[1] \o <<":", " ">> \o h[2] \o EOL
HeadBytes(path, headers) ==
  POST \o <<" ">> \o path \o <<" ">> \o HTTP11 \o EOL
    \o Join([i \in 1..Len(headers) |-> HeaderBytes(headers[i])]) \o EOL
ChunkBytes(payload, ext) == Hex(Len(payload)) \o ext \o EOL \o payload \o EOL
TrailerBytes == <<"T", ":", " ", "v">> \o EOL
ChunkedBytes(payloads, ext, trailers) ==
  Join([i \in 1..Len(payloads) |-> ChunkBytes(payloads[i], ext)])
    \o <<"0">> \o ext \o EOL \o Join([i \in 1..trailers |-> TrailerBytes]) \o EOL
\* the request that follows on a kept-alive connection
NextBytes == GET \o <<" ", "/", "b", " ">> \o HTTP11 \o EOL \o EOL

Payloads == { <<"h","i">>, <<"p","a","y","l","o","a","d","1","2","3">> }
PayloadLists(n) == UNION { [1..k -> Payloads] : k \in 0..n }
HeaderChoices ==
  { <<>>,
    << <<ContentLength, <<"2">> >> >>,
    << <<ContentLength, <<"2">> >>, <<TransferEncoding, chunked>> >>,
    << <<TransferEncoding, chunked>> >>,
    << <<transfer_encoding, <<"g","z","i","p",","," ","C","h","u","n","k","e","d">> >> >>,
    << <<ContentLength, <<"x">> >> >>,
    << <<Host, <<"[",":",":","1","]",":","8","0">> >>, <<TransferEncoding, chunked>> >>,
    << <<Host, <<"[",":",":","1","]",":","x">> >> >>,
    << <<Host, <<"h",":","x">> >>, <<ContentLength, <<"1","0">> >> >> }

Input(headers, kind, payloads, ext, trailers, follow) ==
  [headers |-> headers, kind |-> kind, payloads |-> payloads, ext |-> ext,
   trailers |-> trailers, follow |-> follow]
Inputs ==
  { Input(h, "raw", p, <<>>, 0, f) :
      h \in HeaderChoices, p \in PayloadLists(1), f \in BOOLEAN }
  \cup
  { Input(h, "chunked", p, e, t, f) :
      h \in HeaderChoices, p \in PayloadLists(MaxChunks), e \in {<<>>, <<";", "x">>},
      t \in 0..MaxTrailers, f \in BOOLEAN }

\* The bytes of an input's body and of what follows it on the connection
BodyBytes(inp) ==
  IF inp.kind = "chunked" THEN ChunkedBytes(inp.payloads, inp.ext, inp.trailers)
  ELSE Join(inp.payloads)
FollowBytes(inp) == IF inp.follow THEN NextBytes ELSE <<>>
StreamOf(inp) == HeadBytes(<<"/">>, inp.headers) \o BodyBytes(inp) \o FollowBytes(inp)

\* A connection handler over the bytes of its connection: the input the
\* peer sent, the bytes not read yet, where the handler is, what the last
\* _read_http_request returned, the requests dispatched, whether an
\* exception left the handler and whether the writer was closed.
Handler(inp, stream, at, request, n, raised, closed) ==
  [input |-> inp, stream |-> stream, pc |-> at, request |-> request, n |-> n,
   raised |-> raised, closed |-> closed]
NoInput == Input(<<>>, "raw", <<>>, <<>>, 0, FALSE)
NoHandler == Handler(NoInput, <<>>, "unused", NoParse("None", <<>>), 0, FALSE, FALSE)

\* A call of _build_wsgi_environ followed from the headers_list handed to it
\* to the header keys of the environ it returns, a set of (key, value).
EnvironCase(headers_list, environ, at) ==
  [headers_list |-> headers_list, environ |-> environ, pc |-> at]
NoEnviron == EnvironCase(<<>>, {}, "unused")

\* What ws_read_frame returns, or the exception it raises
FrameRead(result, fin, opcode, payload) ==
  [result |-> result, fin |-> fin, opcode |-> opcode, payload |-> payload]
\* A frame followed from the payload to be sent, through its bytes, to what
\* ws_read_frame returns for them; key is the masking key of a frame the peer
\* builds, <<>> for a frame of ws_build_frame.
FrameCase(opcode, payload, key, stream, at, out) ==
  [opcode |-> opcode, payload |-> payload, key |-> key, stream |-> stream, pc |-> at,
   out |-> out]
NoFrame == FrameCase(0, <<>>, <<>>, <<>>, "unused", FrameRead("None", 0, 0, <<>>))

\* _wsgi_executor with the connections of the synchronous server, counted:
\* cpu is os.cpu_count() (0 for None), threads the worker threads started,
\* sem the executor's count of workers that finished an item, conns the
\* connections accepted, queued the calls in the work queue, running the
\* calls a worker is executing.  One call that is submitted while every one
\* of the max_workers runs a call is followed: tracked is "none", "queued"
\* or "running", pos its place in the queue.
PoolState(cpu, threads, sem, conns, queued, running, tracked, pos) ==
  [cpu |-> cpu, threads |-> threads, sem |-> sem, conns |-> conns, queued |-> queued,
   running |-> running, tracked |-> tracked, pos |-> pos]
NoPool == PoolState(0, 0, 0, 0, 0, 0, "unused", 0)

\* ------------------------------------------------------------------ state
VARIABLES
  interface,         \* "wsgi" or "asgi": the --interface the server was started with
  trace,             \* whether wire, sendLog and recvLog are kept for the ASGI handler
  pc,                \* where the connection loop is
  cur,               \* the request being served (the last one read)
  nread,             \* requests read on the connection so far
  connLost,          \* the peer is gone: reads hit EOF, drain() raises
  ioError,           \* an I/O error ended the loop (the except clause ran)
  wire,              \* tokens handed to writer.write since cur was read
  respLog,           \* for each status line written, the number of the request it was written for
  wsgiApp,           \* WSGI: the application run for cur
  wsgiResult,        \* WSGI: what _call_wsgi_app returned for cur
  app_state,         \* ASGI: "idle", "running", "returned" or "raised"
  body_sent,         \* ASGI: _handle_asgi_http.body_sent
  disconnect_event,  \* ASGI: disconnect_event.is_set()
  response_started,  \* ASGI: _handle_asgi_http.response_started
  response_complete, \* ASGI: _handle_asgi_http.response_complete
  use_chunked,       \* ASGI: _handle_asgi_http.use_chunked
  pending_headers,   \* ASGI: _handle_asgi_http.pending_headers; <<>> stands for None
  has_cl,            \* ASGI: _handle_asgi_http.has_cl
  has_te,            \* ASGI: _handle_asgi_http.has_te
  recv_waiting,      \* ASGI: a receive() call is waiting on disconnect_event
  rd,                \* a connection handler followed over the bytes of its connection
  en,                \* a call of _build_wsgi_environ
  fr,                \* a WebSocket frame from ws_build_frame or the peer to ws_read_frame
  pool,              \* _wsgi_executor and the connections that submit to it
  buffer_high,       \* ASGI: the writer's buffer holds more than _DRAIN_HIGH_WATER bytes
  nrecv,             \* ASGI: receive() calls made for cur
  nsent,             \* ASGI: messages sent for cur
  answer,            \* ASGI: how far the application is with a well-formed answer to cur
  recvLog,           \* ASGI: the events receive() returned for cur, in order
  sendLog,           \* ASGI: the messages the application sent for cur, in order
  conforming,        \* every request so far was plain HTTP and its application answered it
  ws_accepted,       \* WebSocket: ws_accepted.is_set()
  ws_closed,         \* WebSocket: ws_closed.is_set()
  tasks,             \* WebSocket: the state of every _ws_read_loop task created; read_task is the last
  receive_queue,     \* WebSocket: the events waiting in receive_queue
  nframes,           \* WebSocket: frames read from the peer so far
  frameLog,          \* WebSocket: the frames read, in order
  wsLog,             \* WebSocket: every event put on receive_queue, in order
  lifespan,          \* server: the lifespan argument of run_asgi_server
  waits,             \* server: whether Server.wait_closed() of the runtime waits for open connections
  sup,               \* server: where the supervisor coroutine is
  exit_code,         \* server: "running", or how the process exited: "zero" or "nonzero"
  stop_event,        \* server: stop_event.is_set()
  server,            \* server: the listener: "none", "open" or "closed"
  path_exists,       \* server: os.path.exists(socket_path)
  shutdown_fn,       \* server: run_asgi_server.shutdown_fn: "None" or "do_shutdown"
  supLog,            \* server: the steps the supervisor has taken after stop_event.wait()
  heap,              \* server: the dict objects; heap[StateRef] is run_asgi_server.state
  lifespan_state,    \* lifespan: the dict that scope["state"] of the lifespan scope is
  lifespan_task,     \* lifespan: "none", "running", "returned", "raised" or "cancelled"
  lifespan_queue,    \* lifespan: _handle_asgi_lifespan.receive_queue
  startup_complete,  \* lifespan: startup_complete.is_set()
  shutdown_complete, \* lifespan: shutdown_complete.is_set()
  startup_failed,    \* lifespan: _handle_asgi_lifespan.startup_failed
  app_calls,         \* lifespan: how often the application was called with a lifespan scope
  lsLog,             \* lifespan: every event put on lifespan_queue, in order
  ls_nsent,          \* lifespan: send() calls the application made
  lsSent,            \* lifespan: the types of the messages the application sent
  warned,            \* lifespan: "Lifespan shutdown timed out" was printed
  reqs,              \* server: each connection's request: "none", "handling", "done" or "cancelled"
  scope_state        \* server: the dict that scope["state"] of each request is (0: no scope yet)

connVars == <<interface, trace, pc, cur, nread, connLost, ioError>>
wsgiVars == <<wsgiApp, wsgiResult>>
httpVars == <<app_state, body_sent, disconnect_event, response_started, response_complete,
              use_chunked, pending_headers, has_cl, has_te, recv_waiting, buffer_high>>
logVars == <<nrecv, nsent, answer, recvLog, sendLog>>
wsVars == <<ws_accepted, ws_closed, tasks, receive_queue, nframes, frameLog, wsLog>>
supVars == <<lifespan, waits, sup, exit_code, stop_event, server, path_exists, shutdown_fn, supLog>>
lifespanVars == <<lifespan_state, lifespan_task, lifespan_queue, startup_complete,
                  shutdown_complete, startup_failed, app_calls, lsLog, ls_nsent, lsSent,
                  warned>>
srvVars == <<supVars, lifespanVars, heap, reqs, scope_state>>
byteVars == <<rd, en, fr, pool>>
vars == <<connVars, wire, respLog, wsgiVars, httpVars, logVars, conforming, wsVars, srvVars,
          byteVars>>

\* No connection is followed over its bytes.
Unused ==
  /\ rd = NoHandler
  /\ en = NoEnviron
  /\ fr = NoFrame
  /\ pool = NoPool

\* The locals of _handle_asgi_http as it sets them before calling the application.
HttpFresh(state) ==
  /\ app_state' = state
  /\ body_sent' = FALSE
  /\ disconnect_event' = FALSE
  /\ response_started' = FALSE
  /\ response_complete' = FALSE
  /\ use_chunked' = FALSE
  /\ pending_headers' = <<>>
  /\ has_cl' = FALSE
  /\ has_te' = FALSE
  /\ recv_waiting' = FALSE
  /\ nrecv' = 0
  /\ nsent' = 0
  /\ answer' = "nothing"
  /\ recvLog' = <<>>
  /\ sendLog' = <<>>

\* A connection has been accepted and its loop is about to read.  The
\* per-request histories are kept on a WSGI connection, where a request has
\* one write; the ASGI handler is followed with them for one request under
\* HttpSpec.
InitLocals ==
  /\ wire = <<>>
  /\ wsgiApp = NoApp
  /\ wsgiResult = NoResult
  /\ body_sent = FALSE
  /\ disconnect_event = FALSE
  /\ response_started = FALSE
  /\ response_complete = FALSE
  /\ use_chunked = FALSE
  /\ pending_headers = <<>>
  /\ has_cl = FALSE
  /\ has_te = FALSE
  /\ recv_waiting = FALSE
  /\ buffer_high = FALSE
  /\ nrecv = 0
  /\ nsent = 0
  /\ answer = "nothing"
  /\ recvLog = <<>>
  /\ sendLog = <<>>

\* The locals of _handle_asgi_websocket, with the events queue holds.
WsLocals(queue) ==
  /\ ws_accepted = FALSE
  /\ ws_closed = FALSE
  /\ tasks = <<>>
  /\ receive_queue = queue
  /\ nframes = 0
  /\ frameLog = <<>>
  /\ wsLog = queue

\* ----------------------------------------------------------- server: data
\* The keys and values of the state dicts; Absent stands for a key the dict
\* does not have.
Keys == {"db"}
Vals == {"x", "y"}
Absent == "absent"
Dicts == [Keys -> Vals \cup {Absent}]
\* state = {} of run_asgi_server: the first dict object and its value
StateRef == 1
EmptyDict == [k \in Keys |-> Absent]
Conns == 1..MaxConns

\* The server as a connection of it is followed: the listener is open, no
\* lifespan, the supervisor waits for the stop event.
Serving ==
  /\ lifespan = FALSE
  /\ waits = TRUE
  /\ sup = "Serving"
  /\ exit_code = "running"
  /\ stop_event = FALSE
  /\ server = "open"
  /\ path_exists = TRUE
  /\ shutdown_fn = "None"
  /\ supLog = <<>>
  /\ heap = <<EmptyDict>>
  /\ lifespan_state = 0
  /\ lifespan_task = "none"
  /\ lifespan_queue = <<>>
  /\ startup_complete = FALSE
  /\ shutdown_complete = FALSE
  /\ startup_failed = FALSE
  /\ app_calls = 0
  /\ lsLog = <<>>
  /\ ls_nsent = 0
  /\ lsSent = {}
  /\ warned = FALSE
  /\ reqs = [r \in Conns |-> "none"]
  /\ scope_state = [r \in Conns |-> 0]

Init ==
  /\ interface \in {"wsgi", "asgi"}
  /\ trace = (interface = "wsgi")
  /\ pc = "ReadingRequest"
  /\ cur = NoRequest
  /\ nread = 0
  /\ connLost = FALSE
  /\ ioError = FALSE
  /\ respLog = <<>>
  /\ app_state = "idle"
  /\ conforming = TRUE
  /\ InitLocals
  /\ WsLocals(<<>>)
  /\ Serving
  /\ Unused

\* _handle_asgi_connection has read the first request of a connection, a plain
\* HTTP one, and _handle_asgi_http is about to call the application.
HttpInit ==
  /\ interface = "asgi"
  /\ trace = TRUE
  /\ pc = "HandlingHttp"
  /\ cur \in { r \in Requests : ~IsWebsocket(r) }
  /\ nread = 1
  /\ connLost = FALSE
  /\ ioError = FALSE
  /\ respLog = <<>>
  /\ app_state = "running"
  /\ conforming = TRUE
  /\ InitLocals
  /\ WsLocals(<<>>)
  /\ Serving
  /\ Unused

\* For each status line among the tokens written, one more entry of respLog.
StatusLines(tokens) == SelectSeq(tokens, LAMBDA t : t.t = "status")
Logged(tokens) == respLog \o [i \in 1..Len(StatusLines(tokens)) |-> nread]

\* writer.write(tokens)
Write(tokens) ==
  /\ wire' = IF trace THEN wire \o tokens ELSE wire
  /\ respLog' = Logged(tokens)

\* The end of one turn of either connection loop, after the response:
\* "close" in the Connection header breaks out of the loop (and the finally
\* clause closes the writer), otherwise the loop reads the next request.
AfterResponseIgnoresCase(req) == IF WantsCloseLowerless(req) THEN "Closed" ELSE "ReadingRequest"
AfterResponse(req) == IF WantsClose(req) THEN "Closed" ELSE "ReadingRequest"

\* ------------------------------------------------------ connection: input
\* The peer goes away while a request is being handled.
ConnectionLost ==
  /\ pc \in {"InExecutor", "Writing", "HandlingHttp", "HandlingWebSocket"}
  /\ ~connLost
  /\ connLost' = TRUE
  /\ UNCHANGED <<wsVars, interface, trace, pc, cur, nread, ioError, wire, respLog, wsgiVars,
                 httpVars, logVars, conforming>>
  /\ UNCHANGED <<srvVars, byteVars>>

\* _read_http_request returns None (EOF before a request): the loop breaks
\* and the finally clause closes the writer.
ReadNone ==
  /\ pc = "ReadingRequest"
  /\ pc' = "Closed"
  /\ UNCHANGED <<wsVars, interface, trace, cur, nread, connLost, ioError, wire, respLog, wsgiVars,
                 httpVars, logVars, conforming>>
  /\ UNCHANGED <<srvVars, byteVars>>

\* WSGI loop: a request is read, the environ is built and _call_wsgi_app is
\* submitted to the executor.
WsgiReadRequest(req) ==
  /\ interface = "wsgi"
  /\ pc = "ReadingRequest"
  /\ ~connLost
  /\ nread < MaxRequests
  /\ pc' = "InExecutor"
  /\ cur' = req
  /\ nread' = nread + 1
  /\ wire' = <<>>
  /\ wsgiApp' = NoApp
  /\ wsgiResult' = NoResult
  /\ UNCHANGED <<wsVars, interface, trace, connLost, ioError, respLog, httpVars, logVars, conforming>>
  /\ UNCHANGED <<srvVars, byteVars>>

\* The executor runs _call_wsgi_app(app, environ).  An exception of the call
\* is raised by the await in the loop; the except clause of the loop does
\* not name it, so that only the finally clause runs, which closes the
\* writer.
WsgiCall(b) ==
  /\ pc = "InExecutor"
  /\ pc' = IF CallWsgiApp(b).raised THEN "Closed" ELSE "Writing"
  /\ wsgiApp' = b
  /\ wsgiResult' = CallWsgiApp(b)
  /\ UNCHANGED <<wsVars, interface, trace, cur, nread, connLost, ioError, wire, respLog, httpVars,
                 logVars, conforming>>
  /\ UNCHANGED <<srvVars, byteVars>>

\* WSGI loop, after run_in_executor: the response is built and written; the
\* writer is drained when its buffer is over _DRAIN_HIGH_WATER (high), which
\* raises when the peer is gone; then the Connection header decides.
WsgiRespond(high) ==
  /\ pc = "Writing"
  /\ Write(WsgiResponseBuf(wsgiResult))
  /\ IF high /\ connLost
       THEN pc' = "Closed" /\ ioError' = TRUE
       ELSE pc' = AfterResponse(cur) /\ ioError' = ioError
  /\ UNCHANGED <<wsVars, interface, trace, cur, nread, connLost, wsgiVars, httpVars, logVars,
                 conforming>>
  /\ UNCHANGED <<srvVars, byteVars>>

\* -------------------------------------------------- event-driven application
\* The messages an ASGI application may pass to send(), and the events
\* receive() returns.
Msg(type, status, headers, body, more) ==
  [type |-> type, status |-> status, headers |-> headers, body |-> body, more_body |-> more]

A_none == <<>>
A_cl == << <<ContentLength, Str(1)>> >>
A_te == << <<TransferEncoding, chunked>> >>

StartMsgs == { Msg("http.response.start", 200, h, <<>>, FALSE) : h \in {A_none, A_cl, A_te} }
BodyMsgs == { Msg("http.response.body", 0, <<>>, b, m) : b \in {<<>>, <<"x">>}, m \in BOOLEAN }
OtherMsgs == { Msg("http.response.trailers", 0, <<>>, <<>>, FALSE) }
AsgiMessages == StartMsgs \cup BodyMsgs \cup OtherMsgs

Event(type, body) == [type |-> type, body |-> body, more_body |-> FALSE]

\* Whether a header of the list has the given lowercase name (h_lower == name).
HasHeader(headers, name) == \E i \in 1..Len(headers) : Lower(headers[i][1]) = name

\* What the first http.response.body after a response start adds to the
\* pending headers: "content-length", "chunked" or "nothing".
FramingIgnoresAppHeaders(hasCl, hasTe, more) == IF ~more THEN "content-length" ELSE "chunked"
Framing(hasCl, hasTe, more) ==
  IF ~hasCl /\ ~hasTe
    THEN IF ~more THEN "content-length" ELSE "chunked"
    ELSE "nothing"

\* The bytes of one body event once the headers are out: a chunk for a
\* non-empty body and the zero chunk after the last one when chunked, the
\* bare bytes otherwise.
BodyTokensNoZeroChunk(chunkedMode, body, more) ==
  IF chunkedMode
    THEN IF body # <<>> THEN <<HexLine(Len(body)), Data(body), CRLF>> ELSE <<>>
    ELSE IF body # <<>> THEN <<Data(body)>> ELSE <<>>
BodyTokens(chunkedMode, body, more) ==
  IF chunkedMode
    THEN (IF body # <<>> THEN <<HexLine(Len(body)), Data(body), CRLF>> ELSE <<>>)
           \o (IF ~more THEN <<HexLine(0), CRLF>> ELSE <<>>)
    ELSE IF body # <<>> THEN <<Data(body)>> ELSE <<>>

\* The header line the framing choice adds.
FramingHeader(choice, body) ==
  IF choice = "content-length" THEN <<HeaderLine(ContentLength, Str(Len(body)))>>
  ELSE IF choice = "chunked" THEN <<HeaderLine(transfer_encoding, chunked)>>
  ELSE <<>>

\* What the except clause of _handle_asgi_http writes when the application raised.
OnRaiseTokensAlways500(started, pending, chunkedMode, complete) == Fixed500
OnRaiseTokens(started, pending, chunkedMode, complete) ==
  IF ~started THEN Fixed500
  ELSE (IF pending # <<>> THEN pending \o <<CRLF>> ELSE <<>>)
         \o (IF chunkedMode /\ ~complete THEN <<HexLine(0), CRLF>> ELSE <<>>)

\* How far the application is with answering as the protocol asks, after one
\* more message: one http.response.start, then body events of which the
\* last, and only the last, has more_body = False.
AnswerAfter(a, m) ==
  IF a = "nothing" /\ m.type = "http.response.start" THEN "started"
  ELSE IF a \in {"started", "streaming"} /\ m.type = "http.response.body"
    THEN IF m.more_body THEN "streaming" ELSE "complete"
  ELSE "violated"

\* ------------------------------------------------------------- WebSocket
\* WS_OPCODE_* of caddysnake.py
WS_OPCODE_TEXT == 1
WS_OPCODE_BINARY == 2
WS_OPCODE_CLOSE == 8
WS_OPCODE_PING == 9
WS_OPCODE_PONG == 10

\* Bytes of a frame payload are written as two hexadecimal characters each.
HexVal(c) == (CHOOSE i \in DOMAIN HexDigits : HexDigits[i] = c) - 1
ByteCount(payload) == Len(payload) \div 2
ByteAt(payload, i) == HexVal(payload[2 * i - 1]) * 16 + HexVal(payload[2 * i])
ByteHex(n) == <<HexDigits[(n \div 16) + 1], HexDigits[(n % 16) + 1]>>

\* chr() and ord() on the letters and digits
Chr(v) ==
  IF v >= 97 /\ v <= 122 THEN LowerChars[v - 96]
  ELSE IF v >= 65 /\ v <= 90 THEN UpperChars[v - 64]
  ELSE IF v >= 48 /\ v <= 57 THEN DecDigits[v - 47]
  ELSE "?"
Ord(c) ==
  IF \E i \in DOMAIN LowerChars : LowerChars[i] = c
    THEN 96 + (CHOOSE i \in DOMAIN LowerChars : LowerChars[i] = c)
  ELSE IF \E i \in DOMAIN UpperChars : UpperChars[i] = c
    THEN 64 + (CHOOSE i \in DOMAIN UpperChars : UpperChars[i] = c)
  ELSE IF \E i \in DOMAIN DecDigits : DecDigits[i] = c
    THEN 47 + (CHOOSE i \in DOMAIN DecDigits : DecDigits[i] = c)
  ELSE 63

\* payload.decode("utf-8") on payloads whose bytes are ASCII letters and
\* digits, or else bytes of 0x80 and above that begin no valid sequence:
\* whether it succeeds, and the text.
Utf8Valid(payload) == \A i \in 1..ByteCount(payload) : ByteAt(payload, i) < 128
Utf8Decode(payload) == [i \in 1..ByteCount(payload) |-> Chr(ByteAt(payload, i))]

\* text.encode("utf-8") on letters and digits
RECURSIVE Utf8Encode(_)
Utf8Encode(text) ==
  IF text = <<>> THEN <<>> ELSE ByteHex(Ord(Head(text))) \o Utf8Encode(Tail(text))

\* struct.pack("!H", code) and struct.unpack("!H", payload[:2])[0]
PackH(code) == ByteHex(code \div 256) \o ByteHex(code % 256)
UnpackH(payload) == ByteAt(payload, 1) * 256 + ByteAt(payload, 2)

\* What ws_read_frame returns for a frame of the peer, and the frames the
\* peer may send.
Frame(opcode, payload) == [opcode |-> opcode, payload |-> payload]
PeerFrames ==
  { Frame(WS_OPCODE_TEXT, <<"6","8">>),
    Frame(WS_OPCODE_TEXT, <<"f","f">>),
    Frame(WS_OPCODE_BINARY, <<"0","1">>),
    Frame(WS_OPCODE_CLOSE, <<>>),
    Frame(WS_OPCODE_CLOSE, <<"0","3","e","9">>),
    Frame(WS_OPCODE_PING, <<>>) }

\* The frames the peer sends where the connection loop is followed as a
\* whole (Spec); all of PeerFrames where the handler is followed alone.
LoopFrames == { Frame(WS_OPCODE_TEXT, <<"6","8">>), Frame(WS_OPCODE_CLOSE, <<>>) }

\* ws_build_frame(opcode, payload), handed to writer.write in one piece
FrameToken(opcode, payload) == Tok("frame", opcode, payload, <<>>)

\* The events of receive_queue.
WsEvent(type, kind, data, code) == [type |-> type, kind |-> kind, data |-> data, code |-> code]
WsConnect == WsEvent("websocket.connect", "", <<>>, 0)
WsDisconnect(code) == WsEvent("websocket.disconnect", "", <<>>, code)

\* The messages a WebSocket application may pass to send().
WsMsg(type, kind, data, code) == [type |-> type, kind |-> kind, data |-> data, code |-> code]
WsAccept == WsMsg("websocket.accept", "", <<>>, 0)
WsSendText == WsMsg("websocket.send", "text", <<"x">>, 0)
WsClose == WsMsg("websocket.close", "", <<>>, 1000)
WsMessages == {WsAccept, WsSendText, WsClose}

ConnectionName == <<"C","o","n","n","e","c","t","i","o","n">>
SecWebSocketAccept ==
  <<"S","e","c","-","W","e","b","S","o","c","k","e","t","-","A","c","c","e","p","t">>
Forbidden == <<"4","0","3"," ","F","o","r","b","i","d","d","e","n">>

\* raw_headers.get("sec-websocket-key", "") of the upgrade request
ws_key == <<"k","e","y">>
WS_MAGIC == <<"2","5","8","E","A","F","A","5","-","E","9","1","4","-","4","7","D","A","-",
              "9","5","C","A","-","C","5","A","B","0","D","C","8","5","B","1","1">>
\* ws_accept_key(key): the base64 of the SHA-1 of key + WS_MAGIC, kept as the
\* text that is hashed
ws_accept_key(key) == <<"b64sha1:">> \o key \o WS_MAGIC

\* The 101 response of websocket.accept (no subprotocol, no extra headers).
Switching101 ==
  <<StatusLine(101), HeaderLine(Upgrade, websocket), HeaderLine(ConnectionName, Upgrade),
    HeaderLine(SecWebSocketAccept, ws_accept_key(ws_key)), CRLF>>

\* The 403 response of a websocket.close before the accept.
Forbidden403 ==
  <<StatusLine(403), HeaderLine(ContentLength, Str(Len(Forbidden))), CRLF, Data(Forbidden)>>

\* The locals of _handle_asgi_websocket before it calls the application
\* (websocket.connect is on the queue), and their rest values otherwise.
WsFresh(queue) ==
  /\ ws_accepted' = FALSE
  /\ ws_closed' = FALSE
  /\ tasks' = <<>>
  /\ receive_queue' = queue
  /\ nframes' = 0
  /\ frameLog' = <<>>
  /\ wsLog' = queue

\* receive_queue.put(ev); the queue is made by asyncio.Queue() with no
\* maxsize, so that put never waits
Put(evs) ==
  /\ receive_queue' = receive_queue \o evs
  /\ wsLog' = IF trace THEN wsLog \o evs ELSE wsLog

\* A reader task that is not over.
Live(t) == t \in {"ready", "reading"}

\* The application calls receive() and an event is waiting.
WsReceive ==
  /\ pc = "HandlingWebSocket"
  /\ app_state = "running"
  /\ nrecv < MaxReceives
  /\ receive_queue # <<>>
  /\ nrecv' = nrecv + 1
  /\ receive_queue' = Tail(receive_queue)
  /\ recvLog' = IF trace THEN Append(recvLog, Head(receive_queue)) ELSE recvLog
  /\ UNCHANGED <<connVars, wire, respLog, wsgiVars, httpVars, nsent, answer, sendLog,
                 conforming, ws_accepted, ws_closed, tasks, nframes, frameLog, wsLog>>
  /\ UNCHANGED <<srvVars, byteVars>>

\* send({"type": "websocket.accept"}): the 101 response is written and
\* drained (the drain raises into the application when the peer is gone),
\* then ws_accepted is set and a reader task is created.
SendAcceptWithoutResponse ==
  /\ UNCHANGED <<wire, respLog>>
  /\ ws_accepted' = TRUE
  /\ tasks' = Append(tasks, "ready")
  /\ UNCHANGED ws_closed

SendAccept ==
  /\ Write(Switching101)
  /\ IF connLost
       THEN UNCHANGED <<ws_accepted, tasks>>
       ELSE ws_accepted' = TRUE /\ tasks' = Append(tasks, "ready")
  /\ UNCHANGED ws_closed

\* send({"type": "websocket.send", ...}): one frame for text or bytes,
\* nothing for a message with neither.
SendDataInTwoWrites(m) ==
  /\ IF m.kind = "text"
       THEN Write(<<FrameToken(WS_OPCODE_TEXT, <<>>), Data(Utf8Encode(m.data))>>)
     ELSE IF m.kind = "bytes"
       THEN Write(<<FrameToken(WS_OPCODE_BINARY, <<>>), Data(m.data)>>)
     ELSE UNCHANGED <<wire, respLog>>
  /\ UNCHANGED <<ws_accepted, ws_closed, tasks>>

SendData(m) ==
  /\ IF m.kind = "text" THEN Write(<<FrameToken(WS_OPCODE_TEXT, Utf8Encode(m.data))>>)
     ELSE IF m.kind = "bytes" THEN Write(<<FrameToken(WS_OPCODE_BINARY, m.data)>>)
     ELSE UNCHANGED <<wire, respLog>>
  /\ UNCHANGED <<ws_accepted, ws_closed, tasks>>

\* send({"type": "websocket.close", ...}): the 403 response before the
\* accept, a close frame after it; then ws_closed is set.
SendCloseAlwaysFrame(m) ==
  /\ Write(<<FrameToken(WS_OPCODE_CLOSE, PackH(m.code) \o Utf8Encode(m.data))>>)
  /\ ws_closed' = TRUE
  /\ UNCHANGED <<ws_accepted, tasks>>

SendClose(m) ==
  /\ IF ~ws_accepted THEN Write(Forbidden403)
     ELSE Write(<<FrameToken(WS_OPCODE_CLOSE, PackH(m.code) \o Utf8Encode(m.data))>>)
  /\ ws_closed' = TRUE
  /\ UNCHANGED <<ws_accepted, tasks>>

\* The application calls send(message).
WsSend(m) ==
  /\ pc = "HandlingWebSocket"
  /\ app_state = "running"
  /\ nsent < MaxWsSends
  /\ nsent' = nsent + 1
  /\ sendLog' = IF trace THEN Append(sendLog, m) ELSE sendLog
  /\ IF m.type = "websocket.accept" THEN SendAccept
     ELSE IF m.type = "websocket.send" THEN SendData(m)
     ELSE IF m.type = "websocket.close" THEN SendClose(m)
     ELSE UNCHANGED <<wire, respLog, ws_accepted, ws_closed, tasks>>
  /\ UNCHANGED <<connVars, wsgiVars, httpVars, nrecv, answer, recvLog, conforming,
                 receive_queue, nframes, frameLog, wsLog>>
  /\ UNCHANGED <<srvVars, byteVars>>

\* Where a reader task is after a pass of its loop: "while not
\* closed_event.is_set()", then ws_read_frame waits for the next frame.
LoopTop(closed) == IF closed THEN "done" ELSE "reading"

\* A reader task runs for the first time: it returns when ws_closed is set;
\* readexactly raises RuntimeError, which _ws_read_loop does not catch, when
\* another task is waiting on the same reader; otherwise it waits for a frame.
ReaderStart(i) ==
  /\ pc = "HandlingWebSocket"
  /\ i \in DOMAIN tasks
  /\ tasks[i] = "ready"
  /\ tasks' = [tasks EXCEPT ![i] =
                 IF ws_closed THEN "done"
                 ELSE IF \E j \in DOMAIN tasks : tasks[j] = "reading" THEN "crashed"
                 ELSE "reading"]
  /\ UNCHANGED <<connVars, wire, respLog, wsgiVars, httpVars, logVars, conforming,
                 ws_accepted, ws_closed, receive_queue, nframes, frameLog, wsLog>>
  /\ UNCHANGED <<srvVars, byteVars>>

\* What one frame makes the reader put on the queue.
FrameEvents(f) ==
  IF f.opcode = WS_OPCODE_TEXT
    THEN <<WsEvent("websocket.receive", "text", Utf8Decode(f.payload), 0)>>
  ELSE IF f.opcode = WS_OPCODE_BINARY
    THEN <<WsEvent("websocket.receive", "bytes", f.payload, 0)>>
  ELSE IF f.opcode = WS_OPCODE_CLOSE
    THEN <<WsDisconnect(IF ByteCount(f.payload) >= 2 THEN UnpackH(f.payload) ELSE 1005)>>
  ELSE <<>>

\* A waiting reader task gets a frame and handles it: an event for text,
\* binary and close, a pong for ping; decoding an invalid text raises
\* UnicodeDecodeError, which is not caught; the loop ends after a close frame.
ReaderFrame(i, f) ==
  /\ pc = "HandlingWebSocket"
  /\ i \in DOMAIN tasks
  /\ tasks[i] = "reading"
  /\ ~connLost
  /\ nframes < MaxFrames
  /\ trace \/ f \in LoopFrames
  /\ nframes' = nframes + 1
  /\ frameLog' = IF trace THEN Append(frameLog, f) ELSE frameLog
  /\ IF f.opcode = WS_OPCODE_TEXT /\ ~Utf8Valid(f.payload)
       THEN /\ tasks' = [tasks EXCEPT ![i] = "crashed"]
            /\ UNCHANGED <<receive_queue, wsLog, wire, respLog>>
       ELSE /\ Put(FrameEvents(f))
            /\ IF f.opcode = WS_OPCODE_PING
                 THEN Write(<<FrameToken(WS_OPCODE_PONG, f.payload)>>)
                 ELSE UNCHANGED <<wire, respLog>>
            /\ tasks' = [tasks EXCEPT ![i] =
                           IF f.opcode = WS_OPCODE_CLOSE THEN "done" ELSE LoopTop(ws_closed)]
  /\ UNCHANGED <<connVars, wsgiVars, httpVars, logVars, conforming, ws_accepted, ws_closed>>
  /\ UNCHANGED <<srvVars, byteVars>>

\* The socket dies under a waiting reader task: websocket.disconnect with
\* code 1006 is put on the queue and the task ends.
ReaderSocketDies(i) ==
  /\ pc = "HandlingWebSocket"
  /\ i \in DOMAIN tasks
  /\ tasks[i] = "reading"
  /\ connLost
  /\ Put(<<WsDisconnect(1006)>>)
  /\ tasks' = [tasks EXCEPT ![i] = "done"]
  /\ UNCHANGED <<connVars, wire, respLog, wsgiVars, httpVars, logVars, conforming,
                 ws_accepted, ws_closed, nframes, frameLog>>
  /\ UNCHANGED <<srvVars, byteVars>>

\* The finally clause of _handle_asgi_websocket: read_task, the task created
\* last, is cancelled and awaited when it is not done.
AfterFinally(ts) ==
  IF ts # <<>> /\ Live(ts[Len(ts)]) THEN [ts EXCEPT ![Len(ts)] = "cancelled"] ELSE ts

\* The application returns: the finally clause runs, the handler returns
\* and the connection loop breaks; its finally clause closes the writer.
WsAppReturn ==
  /\ pc = "HandlingWebSocket"
  /\ app_state = "running"
  /\ app_state' = "returned"
  /\ ws_closed' = TRUE
  /\ tasks' = AfterFinally(tasks)
  /\ pc' = "Closed"
  /\ UNCHANGED <<interface, trace, cur, nread, connLost, ioError, wire, respLog, wsgiVars,
                 body_sent, disconnect_event, response_started, response_complete,
                 use_chunked, pending_headers, has_cl, has_te, recv_waiting, buffer_high, logVars,
                 conforming, ws_accepted, receive_queue, nframes, frameLog, wsLog>>
  /\ UNCHANGED <<srvVars, byteVars>>

\* The application raises: the 500 response is written and drained when the
\* connection was not accepted (the drain raises into the connection loop
\* when the peer is gone); then as above.
WsAppRaise ==
  /\ pc = "HandlingWebSocket"
  /\ app_state = "running"
  /\ app_state' = "raised"
  /\ IF ~ws_accepted
       THEN Write(Fixed500) /\ ioError' = (ioError \/ connLost)
       ELSE UNCHANGED <<wire, respLog, ioError>>
  /\ ws_closed' = TRUE
  /\ tasks' = AfterFinally(tasks)
  /\ pc' = "Closed"
  /\ UNCHANGED <<interface, trace, cur, nread, connLost, wsgiVars,
                 body_sent, disconnect_event, response_started, response_complete,
                 use_chunked, pending_headers, has_cl, has_te, recv_waiting, buffer_high, logVars,
                 conforming, ws_accepted, receive_queue, nframes, frameLog, wsLog>>
  /\ UNCHANGED <<srvVars, byteVars>>

\* ASGI loop: a request is read and classified, the scope is built and the
\* handler for it is entered; _handle_asgi_http sets its locals and calls the
\* application.
AsgiReadRequest(req) ==
  /\ interface = "asgi"
  /\ pc = "ReadingRequest"
  /\ ~connLost
  /\ nread < MaxRequests
  /\ cur' = req
  /\ nread' = nread + 1
  /\ wire' = <<>>
  /\ IF IsWebsocket(req)
       THEN /\ pc' = "HandlingWebSocket"
            /\ WsFresh(<<WsConnect>>)
            /\ conforming' = FALSE
       ELSE /\ pc' = "HandlingHttp"
            /\ WsFresh(<<>>)
            /\ conforming' = conforming
  /\ HttpFresh("running")
  /\ UNCHANGED buffer_high
  /\ UNCHANGED <<interface, trace, connLost, ioError, respLog, wsgiVars>>
  /\ UNCHANGED <<srvVars, byteVars>>

\* The application calls receive(): the request event the first time; later
\* the disconnect event at once when disconnect_event is set, and otherwise
\* the call waits on it.
AppReceive ==
  /\ pc = "HandlingHttp"
  /\ app_state = "running"
  /\ ~recv_waiting
  /\ nrecv < MaxReceives
  /\ nrecv' = nrecv + 1
  /\ IF ~body_sent
       THEN /\ body_sent' = TRUE
            /\ recvLog' = IF trace THEN Append(recvLog, Event("http.request", cur.body))
                          ELSE recvLog
            /\ recv_waiting' = FALSE
       ELSE IF disconnect_event
         THEN /\ recvLog' = IF trace THEN Append(recvLog, Event("http.disconnect", <<>>))
                            ELSE recvLog
              /\ UNCHANGED <<body_sent, recv_waiting>>
         ELSE /\ recv_waiting' = TRUE
              /\ UNCHANGED <<body_sent, recvLog>>
  /\ UNCHANGED <<wsVars, connVars, wire, respLog, wsgiVars, app_state, disconnect_event,
                 response_started, response_complete, use_chunked, pending_headers,
                 has_cl, has_te, buffer_high, nsent, answer, sendLog, conforming>>
  /\ UNCHANGED <<srvVars, byteVars>>

\* disconnect_event.wait() returns in a waiting receive().
ReceiveWake ==
  /\ pc = "HandlingHttp"
  /\ recv_waiting
  /\ disconnect_event
  /\ recv_waiting' = FALSE
  /\ recvLog' = IF trace THEN Append(recvLog, Event("http.disconnect", <<>>)) ELSE recvLog
  /\ UNCHANGED <<wsVars, connVars, wire, respLog, wsgiVars, app_state, body_sent, disconnect_event,
                 response_started, response_complete, use_chunked, pending_headers,
                 has_cl, has_te, buffer_high, nrecv, nsent, answer, sendLog, conforming>>
  /\ UNCHANGED <<srvVars, byteVars>>

\* "if not more_body: await writer.drain(); response_complete = True;
\* disconnect_event.set()": whether a body event marks the response complete
\* and sets the disconnect event (lost: the drain raises instead).
CompletesOnAnyBody(more, lost) == ~lost
Completes(more, lost) == ~more /\ ~lost

\* send({"type": "http.response.start", ...})
SendStart(m) ==
  /\ response_started' = TRUE
  /\ has_cl' = (has_cl \/ HasHeader(m.headers, content_length))
  /\ has_te' = (has_te \/ HasHeader(m.headers, transfer_encoding))
  /\ pending_headers' = <<StatusLine(m.status)>> \o HeaderLines(m.headers)
  /\ UNCHANGED <<wire, respLog, use_chunked, response_complete, disconnect_event, buffer_high>>

\* Whether the writer's buffer may be over _DRAIN_HIGH_WATER when send()
\* returns from an http.response.body: never after `await writer.drain()`,
\* which is called when more_body is false; otherwise it is as the peer
\* reads, once bytes were written or the buffer was high before.
Undrained(more, written) ==
  IF ~more THEN {FALSE}
  ELSE IF trace /\ (written > 0 \/ buffer_high) THEN BOOLEAN
  ELSE {buffer_high}

\* send({"type": "http.response.body", ...}); draining after the last body
\* raises when the peer is gone, and then the response is not marked complete.
SendBody(m) ==
  LET first == pending_headers # <<>>
      choice == IF first THEN Framing(has_cl, has_te, m.more_body) ELSE "nothing"
      chunkedMode == use_chunked \/ choice = "chunked"
      head == IF first THEN pending_headers \o FramingHeader(choice, m.body) \o <<CRLF>>
              ELSE <<>>
  IN /\ pending_headers' = <<>>
     /\ use_chunked' = chunkedMode
     /\ Write(head \o BodyTokens(chunkedMode, m.body, m.more_body))
     /\ IF Completes(m.more_body, connLost)
          THEN response_complete' = TRUE /\ disconnect_event' = TRUE
          ELSE UNCHANGED <<response_complete, disconnect_event>>
     /\ buffer_high' \in Undrained(m.more_body, Len(head) + Len(m.body))
     /\ UNCHANGED <<response_started, has_cl, has_te>>

\* The application calls send(message).
AppSend(m) ==
  /\ pc = "HandlingHttp"
  /\ app_state = "running"
  /\ nsent < MaxSends
  /\ nsent' = nsent + 1
  /\ answer' = AnswerAfter(answer, m)
  /\ sendLog' = IF trace THEN Append(sendLog, m) ELSE sendLog
  /\ IF m.type = "http.response.start" THEN SendStart(m)
     ELSE IF m.type = "http.response.body" THEN SendBody(m)
     ELSE UNCHANGED <<wire, respLog, response_started, response_complete, use_chunked,
                      pending_headers, has_cl, has_te, disconnect_event, buffer_high>>
  /\ UNCHANGED <<wsVars, connVars, wsgiVars, app_state, body_sent, recv_waiting, nrecv, recvLog,
                 conforming>>
  /\ UNCHANGED <<srvVars, byteVars>>

\* The application returns: _handle_asgi_http returns without writing, and
\* the loop goes on with the Connection header.
AppReturn ==
  /\ pc = "HandlingHttp"
  /\ app_state = "running"
  /\ app_state' = "returned"
  /\ recv_waiting' = FALSE
  /\ pc' = AfterResponse(cur)
  /\ conforming' = (conforming /\ answer = "complete")
  /\ UNCHANGED <<wsVars, interface, trace, cur, nread, connLost, ioError, wire, respLog, wsgiVars,
                 body_sent, disconnect_event, response_started, response_complete,
                 use_chunked, pending_headers, has_cl, has_te, buffer_high, logVars>>
  /\ UNCHANGED <<srvVars, byteVars>>

\* The application raises: the except clause of _handle_asgi_http writes and
\* drains; the drain raises into the connection loop when the peer is gone.
AppRaise ==
  /\ pc = "HandlingHttp"
  /\ app_state = "running"
  /\ app_state' = "raised"
  /\ recv_waiting' = FALSE
  /\ Write(OnRaiseTokens(response_started, pending_headers, use_chunked, response_complete))
  /\ pending_headers' = <<>>
  /\ IF connLost
       THEN pc' = "Closed" /\ ioError' = TRUE
       ELSE pc' = AfterResponse(cur) /\ ioError' = ioError
  /\ conforming' = (conforming /\ answer = "complete")
  /\ UNCHANGED <<wsVars, interface, trace, cur, nread, connLost, wsgiVars, body_sent,
                 disconnect_event, response_started, response_complete, use_chunked,
                 has_cl, has_te, logVars>>
  /\ buffer_high' = FALSE
  /\ UNCHANGED <<srvVars, byteVars>>

\* ------------------------------------------------------------ specification
\* One connection, from accept to close.
Next ==
  \/ ConnectionLost
  \/ ReadNone
  \/ \E req \in Requests : WsgiReadRequest(req)
  \/ pc = "InExecutor" /\ \E b \in WsgiApps : WsgiCall(b)
  \/ \E high \in BOOLEAN : WsgiRespond(high)
  \/ \E req \in Requests : AsgiReadRequest(req)
  \/ WsReceive
  \/ \E m \in WsMessages : WsSend(m)
  \/ \E i \in 1..MaxWsSends : ReaderStart(i)
  \/ \E i \in 1..MaxWsSends, f \in PeerFrames : ReaderFrame(i, f)
  \/ \E i \in 1..MaxWsSends : ReaderSocketDies(i)
  \/ WsAppReturn
  \/ WsAppRaise
  \/ AppReceive
  \/ ReceiveWake
  \/ \E m \in AsgiMessages : AppSend(m)
  \/ AppReturn
  \/ AppRaise

Spec == Init /\ [][Next]_vars

\* One run of _handle_asgi_http.
HttpNext ==
  \/ ConnectionLost
  \/ AppReceive
  \/ ReceiveWake
  \/ \E m \in AsgiMessages : AppSend(m)
  \/ AppReturn
  \/ AppRaise

HttpSpec == HttpInit /\ [][HttpNext]_vars

\* _handle_asgi_connection has read a WebSocket upgrade request, the first
\* request of a connection, and _handle_asgi_websocket is about to call the
\* application.
WsInit ==
  /\ interface = "asgi"
  /\ trace = TRUE
  /\ pc = "HandlingWebSocket"
  /\ cur \in { r \in Requests : IsWebsocket(r) }
  /\ nread = 1
  /\ connLost = FALSE
  /\ ioError = FALSE
  /\ respLog = <<>>
  /\ app_state = "running"
  /\ conforming = FALSE
  /\ InitLocals
  /\ WsLocals(<<WsConnect>>)
  /\ Serving
  /\ Unused

\* One run of _handle_asgi_websocket.
WsNext ==
  \/ ConnectionLost
  \/ WsReceive
  \/ \E m \in WsMessages : WsSend(m)
  \/ \E i \in 1..MaxWsSends : ReaderStart(i)
  \/ \E i \in 1..MaxWsSends, f \in PeerFrames : ReaderFrame(i, f)
  \/ \E i \in 1..MaxWsSends : ReaderSocketDies(i)
  \/ WsAppReturn
  \/ WsAppRaise

WsSpec == WsInit /\ [][WsNext]_vars

\* What the event loop guarantees: a coroutine that is ready runs.  Nothing
\* makes the peer send, or the application call send or receive, return or
\* raise.
HttpFairSpec == HttpSpec /\ WF_vars(ReceiveWake)

\* -------------------------------------------------- server: the supervisor
\* Every variable of a connection; the supervisor touches none of them.
connAll == <<connVars, wire, respLog, wsgiVars, httpVars, logVars, conforming, wsVars>>

\* task.cancel(): a task that is over stays as it ended
Cancel(t) == IF t = "running" THEN "cancelled" ELSE t

\* scope["state"] of the lifespan scope: state itself
LifespanScopeState == StateRef

\* scope["state"] of a request scope: dict(state), a new dict object
RequestScopeStateAliased(h) == StateRef
RequestScopeState(h) == Len(h) + 1

\* await lifespan_queue.put(event)
LsPut(event) ==
  /\ lifespan_queue' = Append(lifespan_queue, event)
  /\ lsLog' = Append(lsLog, event)

\* run_asgi_server with lifespan on: _handle_asgi_lifespan creates the task
\* that calls the application, puts lifespan.startup and waits for
\* startup_complete.
LifespanStart ==
  /\ sup = "Start"
  /\ interface = "asgi" /\ lifespan
  /\ lifespan_state' = LifespanScopeState
  /\ lifespan_task' = "running"
  /\ app_calls' = app_calls + 1
  /\ LsPut("lifespan.startup")
  /\ sup' = "Startup"
  /\ UNCHANGED <<connAll, byteVars, lifespan, waits, exit_code, stop_event, server, path_exists,
                 shutdown_fn, supLog, heap, startup_complete, shutdown_complete,
                 startup_failed, ls_nsent, lsSent, warned, reqs, scope_state>>

\* startup_complete is set: _handle_asgi_lifespan goes on.  With
\* startup_failed it cancels the task and returns (False, None), and
\* run_asgi_server calls sys.exit(1); otherwise it returns (True, do_shutdown).
StartupWake ==
  /\ sup = "Startup"
  /\ startup_complete
  /\ IF startup_failed
       THEN /\ lifespan_task' = Cancel(lifespan_task)
            /\ shutdown_fn' = "None"
            /\ sup' = "Exited"
            /\ exit_code' = "nonzero"
       ELSE /\ shutdown_fn' = "do_shutdown"
            /\ sup' = "Binding"
            /\ UNCHANGED <<lifespan_task, exit_code>>
  /\ UNCHANGED <<connAll, byteVars, lifespan, waits, stop_event, server, path_exists, supLog, heap,
                 lifespan_state, lifespan_queue, startup_complete, shutdown_complete,
                 startup_failed, app_calls, lsLog, ls_nsent, lsSent, warned, reqs, scope_state>>

\* A stale socket path is unlinked, the listener is bound at the path and the
\* signal handlers are installed; the supervisor waits for stop_event.
Bind ==
  /\ \/ sup = "Binding"
     \/ sup = "Start" /\ ~(interface = "asgi" /\ lifespan)
  /\ path_exists' = TRUE
  /\ server' = "open"
  /\ sup' = "Serving"
  /\ UNCHANGED <<connAll, byteVars, lifespan, waits, exit_code, stop_event, shutdown_fn, supLog,
                 lifespanVars, heap, reqs, scope_state>>

\* SIGTERM or SIGINT: the handler sets stop_event.
Signal ==
  /\ sup = "Serving"
  /\ ~stop_event
  /\ stop_event' = TRUE
  /\ UNCHANGED <<connAll, byteVars, lifespan, waits, sup, exit_code, server, path_exists, shutdown_fn,
                 supLog, lifespanVars, heap, reqs, scope_state>>

\* await stop_event.wait() returns; server.close()
StopWake ==
  /\ sup = "Serving"
  /\ stop_event
  /\ server' = "closed"
  /\ supLog' = Append(supLog, "close")
  /\ sup' = "WaitClosed"
  /\ UNCHANGED <<connAll, byteVars, lifespan, waits, exit_code, stop_event, path_exists, shutdown_fn,
                 lifespanVars, heap, reqs, scope_state>>

\* What follows await server.wait_closed(): if shutdown_fn: await shutdown_fn()
AfterWaitClosedSkipsHook(fn) == "Flush"
AfterWaitClosed(fn) == IF fn = "do_shutdown" THEN "Hook" ELSE "Flush"

\* await server.wait_closed() returns: at once where the runtime's
\* wait_closed does not wait after close(), otherwise when no connection is
\* open any more.
WaitClosed ==
  /\ sup = "WaitClosed"
  /\ waits => \A r \in Conns : reqs[r] # "handling"
  /\ supLog' = Append(supLog, "wait_closed")
  /\ sup' = AfterWaitClosed(shutdown_fn)
  /\ UNCHANGED <<connAll, byteVars, lifespan, waits, exit_code, stop_event, server, path_exists,
                 shutdown_fn, lifespanVars, heap, reqs, scope_state>>

\* do_shutdown(): lifespan.shutdown is put and the wait for
\* shutdown_complete, of at most 30 seconds, begins.
HookStart ==
  /\ sup = "Hook"
  /\ LsPut("lifespan.shutdown")
  /\ supLog' = Append(supLog, "hook")
  /\ sup' = "HookWait"
  /\ UNCHANGED <<connAll, byteVars, lifespan, waits, exit_code, stop_event, server, path_exists,
                 shutdown_fn, heap, lifespan_state, lifespan_task, startup_complete,
                 shutdown_complete, startup_failed, app_calls, ls_nsent, lsSent, warned, reqs,
                 scope_state>>

\* asyncio.wait_for(shutdown_complete.wait(), timeout=30) raises TimeoutError:
\* the 30 seconds may run out whenever the event is not set.
TimedOutNever(complete) == FALSE
TimedOut(complete) == ~complete

\* The wait of do_shutdown() is over, by the event or by the timeout, which
\* prints the warning; the task is cancelled and awaited, and do_shutdown
\* returns.
HookEnd ==
  /\ sup = "HookWait"
  /\ shutdown_complete \/ TimedOut(shutdown_complete)
  /\ warned' = ~shutdown_complete
  /\ lifespan_task' = Cancel(lifespan_task)
  /\ supLog' = Append(supLog, "hook_done")
  /\ sup' = "Flush"
  /\ UNCHANGED <<connAll, byteVars, lifespan, waits, exit_code, stop_event, server, path_exists,
                 shutdown_fn, heap, lifespan_state, lifespan_queue, startup_complete,
                 shutdown_complete, startup_failed, app_calls, lsLog, ls_nsent, lsSent, reqs,
                 scope_state>>

\* sys.stderr.flush(); sys.stdout.flush()
Flush ==
  /\ sup = "Flush"
  /\ supLog' = Append(supLog, "flush")
  /\ sup' = "Unlink"
  /\ UNCHANGED <<connAll, byteVars, lifespan, waits, exit_code, stop_event, server, path_exists,
                 shutdown_fn, lifespanVars, heap, reqs, scope_state>>

\* os.unlink(socket_path); the coroutine returns and asyncio.run() cancels
\* the tasks that are left, the connection handlers among them.
Unlink ==
  /\ sup = "Unlink"
  /\ path_exists' = FALSE
  /\ supLog' = Append(supLog, "unlink")
  /\ sup' = "Exited"
  /\ exit_code' = "zero"
  /\ reqs' = [r \in Conns |-> IF reqs[r] = "handling" THEN "cancelled" ELSE reqs[r]]
  /\ lifespan_task' = Cancel(lifespan_task)
  /\ UNCHANGED <<connAll, byteVars, lifespan, waits, stop_event, server, shutdown_fn, heap,
                 lifespan_state, lifespan_queue, startup_complete, shutdown_complete,
                 startup_failed, app_calls, lsLog, ls_nsent, lsSent, warned, scope_state>>

\* ------------------------------------------- server: the lifespan application
\* The messages the application may send on the lifespan scope.
LifespanMessages ==
  {"lifespan.startup.complete", "lifespan.startup.failed",
   "lifespan.shutdown.complete", "lifespan.shutdown.failed"}

\* The application is running on the lifespan scope.
LifespanRunning == lifespan_task = "running" /\ sup # "Exited"

\* receive() of the lifespan scope returns an event.
LsReceive ==
  /\ LifespanRunning
  /\ lifespan_queue # <<>>
  /\ lifespan_queue' = Tail(lifespan_queue)
  /\ UNCHANGED <<connAll, byteVars, supVars, heap, lifespan_state, lifespan_task, startup_complete,
                 shutdown_complete, startup_failed, app_calls, lsLog, ls_nsent, lsSent, warned, reqs,
                 scope_state>>

\* send(message) of the lifespan scope
LsSend(m) ==
  /\ LifespanRunning
  /\ ls_nsent < MaxLsSends
  /\ ls_nsent' = ls_nsent + 1
  /\ lsSent' = lsSent \cup {m}
  /\ startup_complete' = (startup_complete \/ m \in {"lifespan.startup.complete",
                                                    "lifespan.startup.failed"})
  /\ startup_failed' = (startup_failed \/ m = "lifespan.startup.failed")
  /\ shutdown_complete' = (shutdown_complete \/ m \in {"lifespan.shutdown.complete",
                                                      "lifespan.shutdown.failed"})
  /\ UNCHANGED <<connAll, byteVars, supVars, heap, lifespan_state, lifespan_task, lifespan_queue,
                 app_calls, lsLog, warned, reqs, scope_state>>

\* The application binds or removes a key of scope["state"].
LsSetState(k, v) ==
  /\ LifespanRunning
  /\ heap[lifespan_state][k] # v
  /\ heap' = [heap EXCEPT ![lifespan_state][k] = v]
  /\ UNCHANGED <<connAll, byteVars, supVars, lifespanVars, reqs, scope_state>>

\* The application returns from the lifespan scope: run() returns.
LsReturn ==
  /\ LifespanRunning
  /\ lifespan_task' = "returned"
  /\ UNCHANGED <<connAll, byteVars, supVars, heap, lifespan_state, lifespan_queue, startup_complete,
                 shutdown_complete, startup_failed, app_calls, lsLog, ls_nsent, lsSent, warned, reqs,
                 scope_state>>

\* The application raises on the lifespan scope: run() prints the traceback
\* and sets startup_complete.
LsRaise ==
  /\ LifespanRunning
  /\ lifespan_task' = "raised"
  /\ startup_complete' = TRUE
  /\ UNCHANGED <<connAll, byteVars, supVars, heap, lifespan_state, lifespan_queue, shutdown_complete,
                 startup_failed, app_calls, lsLog, ls_nsent, lsSent, warned, reqs, scope_state>>

\* ------------------------------------------------ server: the connections
\* A connection is accepted and its request read; an ASGI scope gets
\* dict(state).
Accept(r) ==
  /\ server = "open"
  /\ reqs[r] = "none"
  /\ reqs' = [reqs EXCEPT ![r] = "handling"]
  /\ IF interface = "asgi"
       THEN /\ heap' = Append(heap, heap[StateRef])
            /\ scope_state' = [scope_state EXCEPT ![r] = RequestScopeState(heap)]
       ELSE UNCHANGED <<heap, scope_state>>
  /\ UNCHANGED <<connAll, byteVars, supVars, lifespanVars>>

\* The application binds or removes a key of scope["state"] of a request.
ReqSetState(r, k, v) ==
  /\ reqs[r] = "handling"
  /\ scope_state[r] # 0
  /\ heap[scope_state[r]][k] # v
  /\ heap' = [heap EXCEPT ![scope_state[r]][k] = v]
  /\ UNCHANGED <<connAll, byteVars, supVars, lifespanVars, reqs, scope_state>>

\* The response of a request is written in full and its connection closed.
ReqDone(r) ==
  /\ reqs[r] = "handling"
  /\ reqs' = [reqs EXCEPT ![r] = "done"]
  /\ UNCHANGED <<connAll, byteVars, supVars, lifespanVars, heap, scope_state>>

\* No connection is followed in itself.
NoConnection ==
  /\ trace = FALSE
  /\ pc = "Closed"
  /\ cur = NoRequest
  /\ nread = 0
  /\ connLost = FALSE
  /\ ioError = FALSE
  /\ respLog = <<>>
  /\ app_state = "idle"
  /\ conforming = TRUE
  /\ InitLocals
  /\ WsLocals(<<>>)

\* run_wsgi_server or run_asgi_server is called: nothing is bound, the socket
\* path may be left over from an earlier run, and the runtime's
\* Server.wait_closed() waits for open connections or does not.
ServerInit ==
  /\ interface \in {"wsgi", "asgi"}
  /\ lifespan \in (IF interface = "asgi" THEN BOOLEAN ELSE {FALSE})
  /\ waits \in BOOLEAN
  /\ sup = "Start"
  /\ exit_code = "running"
  /\ stop_event = FALSE
  /\ server = "none"
  /\ path_exists \in BOOLEAN
  /\ shutdown_fn = "None"
  /\ supLog = <<>>
  /\ heap = <<EmptyDict>>
  /\ lifespan_state = 0
  /\ lifespan_task = "none"
  /\ lifespan_queue = <<>>
  /\ startup_complete = FALSE
  /\ shutdown_complete = FALSE
  /\ startup_failed = FALSE
  /\ app_calls = 0
  /\ lsLog = <<>>
  /\ ls_nsent = 0
  /\ lsSent = {}
  /\ warned = FALSE
  /\ reqs = [r \in Conns |-> "none"]
  /\ scope_state = [r \in Conns |-> 0]
  /\ NoConnection
  /\ Unused

ServerNext ==
  \/ LifespanStart
  \/ StartupWake
  \/ Bind
  \/ Signal
  \/ StopWake
  \/ WaitClosed
  \/ HookStart
  \/ HookEnd
  \/ Flush
  \/ Unlink
  \/ LsReceive
  \/ \E m \in LifespanMessages : LsSend(m)
  \/ LsReturn
  \/ LsRaise
  \/ \E r \in Conns : Accept(r)
  \/ \E r \in Conns : ReqDone(r)

ServerSpec == ServerInit /\ [][ServerNext]_vars

\* The server up to the shutdown signal, with the applications' writes to
\* the state dicts.
StateInit == ServerInit /\ interface = "asgi" /\ waits /\ ~path_exists

StateNext ==
  \/ LifespanStart
  \/ StartupWake
  \/ Bind
  \/ \E m \in LifespanMessages : LsSend(m)
  \/ \E k \in Keys, v \in Vals \cup {Absent} : LsSetState(k, v)
  \/ LsReturn
  \/ \E r \in Conns : Accept(r)
  \/ \E r \in Conns, k \in Keys, v \in Vals \cup {Absent} : ReqSetState(r, k, v)
  \/ \E r \in Conns : ReqDone(r)

StateSpec == StateInit /\ [][StateNext]_vars

\* The event loop runs every coroutine that can go on: the supervisor and
\* the shutdown hook are resumed, and the timer of wait_for fires.
ServerFairSpec ==
  ServerSpec /\ WF_vars(HookStart) /\ WF_vars(HookEnd)

\* ------------------------------------------- connection: the request bytes
\* The connection loop of _handle_wsgi_connection and _handle_asgi_connection
\* over the bytes of a connection that the peer has ended.

\* "result = await _read_http_request(reader)": None leaves the loop;
\* IncompleteReadError is caught by the except clause of the handler; a
\* ValueError is caught by none and leaves the handler through its finally.
RdRead ==
  /\ rd.pc = "reading"
  /\ LET result == ReadHttpRequest(rd.stream)
     IN rd' = [rd EXCEPT !.stream = result.rest,
                         !.request = result,
                         !.raised = (result.result = "ValueError"),
                         !.pc = IF result.result = "request" THEN "dispatching" ELSE "closing"]
  /\ UNCHANGED <<connAll, srvVars, en, fr, pool>>

\* The request is dispatched: the host header is parsed for the environ or
\* the scope, the application answers, and the loop goes on unless the
\* request asked for the connection to be closed.
RdDispatch ==
  /\ rd.pc = "dispatching"
  /\ LET host_str == RawGet(rd.request.headers, host, localhost)
         conn == RawGet(rd.request.headers, connection, <<>>)
     IN IF ParseHostHeader(host_str) < 0
          THEN rd' = [rd EXCEPT !.raised = TRUE, !.pc = "closing"]
          ELSE rd' = [rd EXCEPT !.n = rd.n + 1,
                                !.pc = IF Contains(Lower(conn), close) THEN "closing"
                                       ELSE "reading"]
  /\ UNCHANGED <<connAll, srvVars, en, fr, pool>>

\* "finally: writer.close(); await writer.wait_closed()"
RdClose ==
  /\ rd.pc = "closing"
  /\ rd' = [rd EXCEPT !.closed = TRUE, !.pc = IF rd.raised THEN "raised" ELSE "returned"]
  /\ UNCHANGED <<connAll, srvVars, en, fr, pool>>

\* A connection is accepted whose peer sends one of the inputs and ends the
\* stream.
ReaderInit ==
  /\ interface \in {"wsgi", "asgi"}
  /\ NoConnection
  /\ Serving
  /\ rd \in { Handler(inp, StreamOf(inp), "reading", NoParse("None", <<>>), 0, FALSE, FALSE) :
                inp \in Inputs }
  /\ en = NoEnviron
  /\ fr = NoFrame
  /\ pool = NoPool

ReaderNext ==
  \/ RdRead
  \/ RdDispatch
  \/ RdClose

ReaderSpec == ReaderInit /\ [][ReaderNext]_vars

\* --------------------------------------------- synchronous: header keys
CONTENT_TYPE == <<"C","O","N","T","E","N","T","_","T","Y","P","E">>
CONTENT_LENGTH == <<"C","O","N","T","E","N","T","_","L","E","N","G","T","H">>
PROXY == <<"P","R","O","X","Y">>
COOKIE == <<"C","O","O","K","I","E">>
HTTP_ == <<"H","T","T","P","_">>
content_type == <<"c","o","n","t","e","n","t","-","t","y","p","e">>

\* key.upper().replace("-", "_")
UpperSnake(key) ==
  [i \in 1..Len(key) |->
     IF key[i] = "-" THEN "_"
     ELSE IF \E k \in DOMAIN LowerChars : LowerChars[k] = key[i]
       THEN UpperChars[CHOOSE k \in DOMAIN LowerChars : LowerChars[k] = key[i]]
     ELSE key[i]]

\* sep.join(values)
RECURSIVE JoinWith(_, _)
JoinWith(values, sep) ==
  IF values = <<>> THEN <<>>
  ELSE IF Len(values) = 1 THEN values[1]
  ELSE values[1] \o sep \o JoinWith(Tail(values), sep)

\* "; " for the cookie header and ", " for the others
SeparatorAlwaysComma(key_upper) == <<",", " ">>
Separator(key_upper) == IF key_upper = COOKIE THEN <<";", " ">> ELSE <<",", " ">>

\* The header_groups of _build_wsgi_environ: the values of the headers kept
\* under one key, in the order of headers_list
HeaderGroup(headers_list, key_upper) ==
  LET under == SelectSeq(headers_list, LAMBDA h : UpperSnake(h[1]) = key_upper)
  IN [i \in 1..Len(under) |-> under[i][2]]

\* _build_wsgi_environ(method, path, version, headers_list, raw_headers,
\* body): the keys of the environ that come from the headers
BuildWsgiEnviron(headers_list) ==
  LET ct == RawGet(headers_list, content_type, <<>>)
      cl == RawGet(headers_list, content_length, <<>>)
      keys == { UpperSnake(headers_list[i][1]) : i \in 1..Len(headers_list) }
                \ {CONTENT_TYPE, CONTENT_LENGTH, PROXY}
  IN (IF ct # <<>> THEN { <<CONTENT_TYPE, ct>> } ELSE {})
       \cup (IF cl # <<>> THEN { <<CONTENT_LENGTH, cl>> } ELSE {})
       \cup { <<HTTP_ \o k, JoinWith(HeaderGroup(headers_list, k), Separator(k))>> : k \in keys }

\* The headers of a request as _read_http_request hands them on: names in
\* lower case, values stripped.
HeaderPairs ==
  { <<<<"c","o","o","k","i","e">>, <<"a","=","1">>>>,
    <<<<"c","o","o","k","i","e">>, <<"b","=","2">>>>,
    <<<<"x","-","a">>, <<"1">>>>,
    <<<<"x","-","a">>, <<"2">>>>,
    <<<<"x","_","a">>, <<"3">>>>,
    <<content_type, text_plain>>,
    <<content_length, <<"2">>>>,
    <<<<"c","o","n","t","e","n","t","_","t","y","p","e">>, <<"t">>>>,
    <<<<"p","r","o","x","y">>, <<"e","v","i","l">>>> }
HeaderLists == UNION { [1..n -> HeaderPairs] : n \in 0..MaxHeaders }

\* _build_wsgi_environ is called.
EnBuild ==
  /\ en.pc = "headers"
  /\ en' = [en EXCEPT !.environ = BuildWsgiEnviron(en.headers_list), !.pc = "built"]
  /\ UNCHANGED <<connAll, srvVars, rd, fr, pool>>

EnvironInit ==
  /\ interface = "wsgi"
  /\ NoConnection
  /\ Serving
  /\ rd = NoHandler
  /\ fr = NoFrame
  /\ pool = NoPool
  /\ en \in { EnvironCase(h, {}, "headers") : h \in HeaderLists }

EnvironNext == EnBuild

EnvironSpec == EnvironInit /\ [][EnvironNext]_vars

\* ------------------------------------------------- WebSocket: frame bytes
\* Bytes are integers of 0..255 here.

\* a ^ b of two bytes
Xor(a, b) ==
  LET bit(x, k) == (x \div k) % 2
      xbit(k) == k * ((bit(a, k) + bit(b, k)) % 2)
  IN xbit(1) + xbit(2) + xbit(4) + xbit(8) + xbit(16) + xbit(32) + xbit(64) + xbit(128)

\* struct.pack("!H", n), struct.unpack("!H", data)[0]
PackShort(n) == <<n \div 256, n % 256>>
UnpackShort(data) == data[1] * 256 + data[2]
\* struct.pack("!Q", n), struct.unpack("!Q", data)[0], for lengths below
\* 2^31: the four high bytes are zero
PackQuad(n) ==
  <<0, 0, 0, 0, (n \div 16777216) % 256, (n \div 65536) % 256, (n \div 256) % 256, n % 256>>
UnpackQuad(data) == ((data[5] * 256 + data[6]) * 256 + data[7]) * 256 + data[8]

\* ws_build_frame(opcode, payload, fin); "|" of the fin bit and an opcode
\* below 16 is their sum
ws_build_frame_short_at_126(opcode, payload, fin) ==
  LET length == Len(payload)
  IN <<(IF fin THEN 128 ELSE 0) + opcode>>
       \o (IF length <= 126 THEN <<length>>
           ELSE IF length < 65536 THEN <<126>> \o PackShort(length)
           ELSE <<127>> \o PackQuad(length))
       \o payload
ws_build_frame(opcode, payload, fin) ==
  LET length == Len(payload)
  IN <<(IF fin THEN 128 ELSE 0) + opcode>>
       \o (IF length < 126 THEN <<length>>
           ELSE IF length < 65536 THEN <<126>> \o PackShort(length)
           ELSE <<127>> \o PackQuad(length))
       \o payload

\* ws_read_frame(reader) on the bytes of a stream the peer has ended
ws_read_frame(s) ==
  LET incomplete == FrameRead("IncompleteReadError", 0, 0, <<>>)
      fin == (s[1] \div 128) % 2
      opcode == s[1] % 16
      masked == (s[2] \div 128) % 2
      len7 == s[2] % 128
      ext == IF len7 = 126 THEN 2 ELSE IF len7 = 127 THEN 8 ELSE 0
      payload_len == IF len7 = 126 THEN UnpackShort(SubSeq(s, 3, 4))
                     ELSE IF len7 = 127 THEN UnpackQuad(SubSeq(s, 3, 10))
                     ELSE len7
      start == 2 + ext + (IF masked = 1 THEN 4 ELSE 0)
      mask_key == SubSeq(s, 2 + ext + 1, 2 + ext + 4)
      raw == SubSeq(s, start + 1, start + payload_len)
  IN IF Len(s) < 2 THEN incomplete
     ELSE IF Len(s) < start THEN incomplete
     ELSE IF Len(s) < start + payload_len THEN incomplete
     ELSE FrameRead("frame", fin, opcode,
                    IF masked = 1
                      THEN [i \in 1..payload_len |-> Xor(raw[i], mask_key[((i - 1) % 4) + 1])]
                      ELSE raw)

\* A frame as a client builds it: the mask bit set, the masking key after
\* the length, the payload masked with the key.
MaskedFrame(opcode, payload, key) ==
  LET length == Len(payload)
  IN <<128 + opcode>>
       \o (IF length < 126 THEN <<128 + length>>
           ELSE IF length < 65536 THEN <<128 + 126>> \o PackShort(length)
           ELSE <<128 + 127>> \o PackQuad(length))
       \o key
       \o [i \in 1..length |-> Xor(payload[i], key[((i - 1) % 4) + 1])]

\* The payloads sent: of each length at the limits of the three length
\* encodings, bytes that run through all values.
PayloadOf(length, seed) == [i \in 1..length |-> (i * 7 + seed) % 256]
ShortLengths == {0, 1} \cup ((125 - Margin)..(126 + Margin))
LongLengths == (65535 - Margin)..(65536 + Margin)
Opcodes == {WS_OPCODE_TEXT, WS_OPCODE_BINARY, WS_OPCODE_CLOSE, WS_OPCODE_PING, WS_OPCODE_PONG}
MaskKeys == { <<0, 0, 0, 0>>, <<55, 250, 33, 61>> }

\* ws_build_frame builds the frame to send.
FrBuild ==
  /\ fr.pc = "payload"
  /\ fr.key = <<>>
  /\ fr' = [fr EXCEPT !.stream = ws_build_frame(fr.opcode, fr.payload, TRUE), !.pc = "sent"]
  /\ UNCHANGED <<connAll, srvVars, rd, en, pool>>

\* The peer builds a masked frame.
FrMask ==
  /\ fr.pc = "payload"
  /\ fr.key # <<>>
  /\ fr' = [fr EXCEPT !.stream = MaskedFrame(fr.opcode, fr.payload, fr.key), !.pc = "sent"]
  /\ UNCHANGED <<connAll, srvVars, rd, en, pool>>

\* ws_read_frame reads the frame.
FrRead ==
  /\ fr.pc = "sent"
  /\ fr' = [fr EXCEPT !.out = ws_read_frame(fr.stream), !.pc = "read"]
  /\ UNCHANGED <<connAll, srvVars, rd, en, pool>>

FrameInit ==
  /\ interface = "asgi"
  /\ NoConnection
  /\ Serving
  /\ rd = NoHandler
  /\ en = NoEnviron
  /\ pool = NoPool
  /\ fr \in { FrameCase(o, PayloadOf(n, s), k, <<>>, "payload", NoFrame.out) :
                o \in Opcodes, n \in ShortLengths, s \in {0, 250}, k \in {<<>>} \cup MaskKeys }
             \cup
             { FrameCase(o, PayloadOf(n, 250), k, <<>>, "payload", NoFrame.out) :
                o \in {WS_OPCODE_TEXT, WS_OPCODE_BINARY}, n \in LongLengths,
                k \in {<<>>, <<55, 250, 33, 61>>} }

FrameNext ==
  \/ FrBuild
  \/ FrMask
  \/ FrRead

FrameSpec == FrameInit /\ [][FrameNext]_vars

\* ------------------------------------------------ synchronous: worker pool
\* max_workers of _wsgi_executor
max_workers(cpu) ==
  LET count == IF cpu = 0 THEN 1 ELSE cpu
      wanted == count * 8 + 16
  IN IF 128 < wanted THEN 128 ELSE wanted

\* The executor after a submission: a worker counted as having finished is
\* relied on, otherwise a thread is started unless max_workers threads exist.
AdjustThreadCountUnlimited(p) ==
  IF p.sem > 0 THEN [p EXCEPT !.sem = @ - 1]
  ELSE [p EXCEPT !.threads = @ + 1]

AdjustThreadCount(p) ==
  IF p.sem > 0 THEN [p EXCEPT !.sem = @ - 1]
  ELSE IF p.threads < max_workers(p.cpu) THEN [p EXCEPT !.threads = @ + 1]
  ELSE p

\* The event loop accepts a connection; nothing of the pool is waited for.
PoolAccept ==
  /\ pool.conns < MaxPoolConns
  /\ pool' = [pool EXCEPT !.conns = @ + 1]
  /\ UNCHANGED <<connAll, srvVars, rd, en, fr>>

\* The event loop has read the request of a connection that has no call
\* pending and awaits loop.run_in_executor(_wsgi_executor, _call_wsgi_app,
\* app, environ): the call is put on the work queue of the executor and the
\* loop goes on.  follow: this call is the one followed.
PoolSubmit(follow) ==
  /\ pool.conns - pool.queued - pool.running > 0
  /\ follow => pool.tracked = "none" /\ pool.running = max_workers(pool.cpu)
  /\ LET p == AdjustThreadCount([pool EXCEPT !.queued = @ + 1])
     IN pool' = IF follow
                  THEN [p EXCEPT !.tracked = "queued", !.pos = pool.queued + 1]
                  ELSE p
  /\ UNCHANGED <<connAll, srvVars, rd, en, fr>>

\* A worker thread that runs no call takes the first call of the work queue
\* and calls _call_wsgi_app.
PoolWorkerTake ==
  /\ pool.threads - pool.running > 0
  /\ pool.queued > 0
  /\ pool' = [pool EXCEPT !.queued = @ - 1, !.running = @ + 1,
                          !.pos = IF pool.tracked = "queued" THEN @ - 1 ELSE @,
                          !.tracked = IF pool.tracked = "queued" /\ pool.pos = 1
                                        THEN "running" ELSE @]
  /\ UNCHANGED <<connAll, srvVars, rd, en, fr>>

\* _call_wsgi_app returns in a worker thread: the worker is counted as
\* finished, the connection gets the result, writes the response and reads
\* its next request.  mine: the call that returns is the one followed.
PoolWorkerDone(mine) ==
  /\ pool.running > 0
  /\ IF mine THEN pool.tracked = "running"
             ELSE pool.running > (IF pool.tracked = "running" THEN 1 ELSE 0)
  /\ pool' = [pool EXCEPT !.running = @ - 1, !.sem = @ + 1,
                          !.tracked = IF mine THEN "none" ELSE @]
  /\ UNCHANGED <<connAll, srvVars, rd, en, fr>>

PoolWorkerReturns == \E mine \in BOOLEAN : PoolWorkerDone(mine)

CpuCounts == {0, 1, 16}

PoolInit ==
  /\ interface = "wsgi"
  /\ NoConnection
  /\ Serving
  /\ rd = NoHandler
  /\ en = NoEnviron
  /\ fr = NoFrame
  /\ pool \in { PoolState(c, 0, 0, 0, 0, 0, "none", 0) : c \in CpuCounts }

PoolNext ==
  \/ PoolAccept
  \/ \E follow \in BOOLEAN : PoolSubmit(follow)
  \/ PoolWorkerTake
  \/ PoolWorkerReturns

\* A worker thread that waits for the work queue gets a call that is in it.
PoolSpec == PoolInit /\ [][PoolNext]_vars /\ WF_vars(PoolWorkerTake)

\* ------------------------------------------------------------------ claims
IsSeqOfRequests(log, n) == Len(log) = n /\ \A i \in 1..n : log[i] = i

\* C1: on a connection whose applications answered every request so far
\* (sync: the call returned or raised; event-driven: one response start, then
\* body events up to a final one), a status line has been written for every
\* request read, once each and in request order, whenever the loop is back at
\* reading or has closed; and while request k is being served, the responses
\* to requests 1..k-1 are all on the wire, so no request is dispatched before
\* the response to the one before it was written.
C1_OneResponsePerRequest ==
  (conforming /\ answer # "violated") =>
    /\ IsSeqOfRequests(respLog, nread) \/ (nread > 0 /\ IsSeqOfRequests(respLog, nread - 1))
    /\ pc \in {"ReadingRequest", "Closed"} => IsSeqOfRequests(respLog, nread)

C1_Witness ==
  /\ interface = "asgi"
  /\ conforming
  /\ pc = "ReadingRequest"
  /\ nread = 2
  /\ respLog = <<1, 2>>

\* C2: when a turn of either connection loop ends (the response was written,
\* or the handler returned), the loop closes the connection if the request's
\* Connection header contains "close" in any letter case or an I/O error was
\* raised, and otherwise is back at reading the next request; a closed
\* connection stays closed and reads no further request.
C2_CloseHonored ==
  [][ /\ (pc \in {"Writing", "HandlingHttp"} /\ pc' # pc) =>
           pc' = (IF Contains(Lower(cur.connection), close) \/ ioError'
                    THEN "Closed" ELSE "ReadingRequest")
      /\ pc = "Closed" => (pc' = "Closed" /\ nread' = nread /\ respLog' = respLog) ]_vars

C2_Witness ==
  /\ pc = "Closed"
  /\ cur.connection = Close
  /\ ~ioError
  /\ nread = 1
  /\ respLog = <<1>>

\* Whether the synchronous application failed: it raised while being called
\* (itself, or by letting the exception of a start_response call with exc_info
\* after an earlier call propagate), iterating its result raised, or it
\* returned without calling start_response.
SyncAppFailed(b) ==
  \/ b.raises
  \/ b.propagate /\ \E i \in 2..Len(b.calls) : b.calls[i].exc
  \/ b.iterRaises
  \/ b.calls = <<>>

\* C3: when the synchronous application failed, the response written is
\* status 500 with body "Internal Server Error" (Content-Type text/plain,
\* Content-Length 21), and nothing else is on the wire: whatever is on the
\* wire is that response, and it is there when the turn of the loop is over.
C3_SyncError500 ==
  (interface = "wsgi" /\ SyncAppFailed(wsgiApp)
     /\ (wire # <<>> \/ (nread > 0 /\ pc \in {"ReadingRequest", "Closed"}))) =>
    wire = <<StatusLine(500), HeaderLine(ContentType, text_plain),
             HeaderLine(ContentLength, <<"2","1">>), CRLF, Data(InternalServerError)>>

C3_Witness ==
  /\ interface = "wsgi"
  /\ wire # <<>>
  /\ wsgiApp.iterRaises
  /\ ~wsgiApp.raises
  /\ wsgiApp.calls = <<Call(S_200, H_cl, FALSE)>>
  /\ wsgiApp.chunks # <<>>
  /\ wire[1] = StatusLine(500)

\* The Content-Length header lines among tokens, whatever the case of the name.
ContentLengthLines(tokens) ==
  SelectSeq(tokens, LAMBDA t : t.t = "header" /\ Lower(t.s) = content_length)

\* C4 as claimed: every sync response on the wire carries exactly one
\* Content-Length header.
C4_Original ==
  (interface = "wsgi" /\ wire # <<>>) => Len(ContentLengthLines(wire)) = 1

\* C4 as amended: a sync response carries the application's own
\* Content-Length header lines when it supplied any (whatever the case of the
\* name; exactly one when it supplied one), and otherwise exactly one, added
\* by the server, whose value is the decimal length of the buffered body (0
\* for an empty body); the server adds none to a response that has one, and
\* the body bytes follow the blank line.
C4_SyncContentLength ==
  (interface = "wsgi" /\ wire # <<>>) =>
    LET own == ContentLengthLines(HeaderLines(wsgiResult.headers))
        onWire == ContentLengthLines(wire)
    IN /\ IF own # <<>> THEN onWire = own
          ELSE onWire = <<HeaderLine(ContentLength, Str(Len(wsgiResult.body)))>>
       /\ Len(own) <= 1 => Len(onWire) = 1
       /\ IF wsgiResult.body = <<>> THEN wire[Len(wire)] = CRLF
          ELSE wire[Len(wire)] = Data(wsgiResult.body) /\ wire[Len(wire) - 1] = CRLF

C4_Witness ==
  /\ interface = "wsgi"
  /\ wire # <<>>
  /\ wsgiResult.headers = H_cl_upper
  /\ wsgiResult.body = <<"x">>
  /\ ContentLengthLines(wire) = <<HeaderLine(ContentLengthUpper, Str(7))>>

\* The event-driven application has sent one response start and then body
\* events only, none after a final one, and has not raised.
OneStartThenBodies == app_state # "raised" /\ answer \in {"streaming", "complete"}

\* Whether the response start carries Content-Length or Transfer-Encoding.
Supplied(start) ==
  \E i \in 1..Len(start.headers) :
    Lower(start.headers[i][1]) \in {content_length, transfer_encoding}

\* The status line and the application's header lines of a response start.
AppHead(start) ==
  <<StatusLine(start.status)>>
    \o [i \in 1..Len(start.headers) |-> HeaderLine(start.headers[i][1], start.headers[i][2])]

\* The non-empty bodies of the body events log[i..], in order.
RECURSIVE Bodies(_, _)
Bodies(log, i) ==
  IF i > Len(log) THEN <<>>
  ELSE (IF log[i].body # <<>> THEN <<log[i].body>> ELSE <<>>) \o Bodies(log, i + 1)

\* C5: at the first body event the server adds Content-Length with that
\* body's length (more_body false) or "transfer-encoding: chunked" (more_body
\* true) when the application supplied neither Content-Length nor
\* Transfer-Encoding, and adds nothing when it supplied either; the choice
\* stands for the later body events: no header is written after the blank
\* line, every body is chunk-wrapped when chunked was chosen, and every body
\* is written bare otherwise.
C5_FramingChoice ==
  OneStartThenBodies =>
    LET start == sendLog[1]
        fb == sendLog[2]
        added == IF Supplied(start) THEN <<>>
                 ELSE IF fb.more_body THEN <<HeaderLine(transfer_encoding, chunked)>>
                 ELSE <<HeaderLine(ContentLength, Str(Len(fb.body)))>>
        head == AppHead(start) \o added \o <<CRLF>>
        rest == SubSeq(wire, Len(head) + 1, Len(wire))
        bodies == Bodies(sendLog, 2)
    IN /\ Len(wire) >= Len(head)
       /\ SubSeq(wire, 1, Len(head)) = head
       /\ \A i \in 1..Len(rest) : rest[i].t \notin {"status", "header"}
       /\ SelectSeq(rest, LAMBDA t : t.t = "data") = [i \in 1..Len(bodies) |-> Data(bodies[i])]
       /\ IF ~Supplied(start) /\ fb.more_body
            THEN \A i \in 1..Len(rest) :
                   rest[i].t = "data" => (i > 1 /\ rest[i - 1] = HexLine(Len(rest[i].s)))
            ELSE \A i \in 1..Len(rest) : rest[i].t = "data"

C5_Witness ==
  /\ OneStartThenBodies
  /\ sendLog[1].headers = A_cl
  /\ Len(sendLog) = 3
  /\ sendLog[2].more_body
  /\ sendLog[2].body = <<"x">>
  /\ sendLog[3].body = <<"x">>
  /\ wire = AppHead(sendLog[1]) \o <<CRLF, Data(<<"x">>), Data(<<"x">>)>>

\* One chunk per non-empty body of log[i..], in order.
RECURSIVE Chunks(_, _)
Chunks(log, i) ==
  IF i > Len(log) THEN <<>>
  ELSE (IF log[i].body # <<>>
          THEN <<HexLine(Len(log[i].body)), Data(log[i].body), CRLF>> ELSE <<>>)
         \o Chunks(log, i + 1)

\* The wire of a chunked response to the messages of log: the status line and
\* the headers with "transfer-encoding: chunked", the blank line, the chunks,
\* and the zero chunk once the final body event was sent.
ChunkedWire(log) ==
  AppHead(log[1]) \o <<HeaderLine(transfer_encoding, chunked), CRLF>>
    \o Chunks(log, 2)
    \o (IF ~log[Len(log)].more_body THEN <<HexLine(0), CRLF>> ELSE <<>>)

\* C6 as claimed: whenever the first body event has more_body = true, the
\* wire is the chunked encoding of the response.
C6_Original ==
  (OneStartThenBodies /\ sendLog[2].more_body) => wire = ChunkedWire(sendLog)

\* C6 as amended: when the application supplied neither Content-Length nor
\* Transfer-Encoding and the first body event has more_body = true, the wire
\* is the status line and headers with "transfer-encoding: chunked", then one
\* hex-length-prefixed chunk per non-empty fragment in the order sent (none
\* for an empty fragment), then the zero chunk after the final fragment.
C6_ChunkedWhenNoFramingHeader ==
  (OneStartThenBodies /\ ~Supplied(sendLog[1]) /\ sendLog[2].more_body) =>
    wire = ChunkedWire(sendLog)

C6_Witness ==
  /\ OneStartThenBodies
  /\ answer = "complete"
  /\ sendLog[1].headers = A_none
  /\ Len(sendLog) = 3
  /\ sendLog[2].more_body
  /\ sendLog[2].body = <<>>
  /\ sendLog[3].body = <<"x">>
  /\ wire = <<StatusLine(200), HeaderLine(transfer_encoding, chunked), CRLF,
              HexLine(1), Data(<<"x">>), CRLF, HexLine(0), CRLF>>

\* No body event among the messages sent: nothing was written before the
\* application returned or raised.
NoBodySent == \A i \in 1..Len(sendLog) : sendLog[i].type # "http.response.body"
NoStartSent == \A i \in 1..Len(sendLog) : sendLog[i].type # "http.response.start"
LastStart ==
  sendLog[CHOOSE i \in 1..Len(sendLog) :
            /\ sendLog[i].type = "http.response.start"
            /\ \A j \in (i + 1)..Len(sendLog) : sendLog[j].type # "http.response.start"]

The500Response ==
  <<StatusLine(500), HeaderLine(ContentLength, <<"2","1">>), CRLF, Data(InternalServerError)>>

\* C7 as claimed: the application raised with no response bytes on the wire,
\* so the wire is the complete 500 response.
C7_Original ==
  (app_state = "raised" /\ NoBodySent) => wire = The500Response

\* C7 as amended: an application that raised before sending
\* http.response.start gets the complete 500 response (Content-Length 21 and
\* the body); one that raised after http.response.start but before any body
\* event gets no 500: the pending status line and headers are written,
\* followed by the blank line, with no body.
C7_RaiseBeforeBody ==
  (app_state = "raised" /\ NoBodySent) =>
    IF NoStartSent THEN wire = The500Response
    ELSE wire = AppHead(LastStart) \o <<CRLF>>

C7_Witness ==
  /\ app_state = "raised"
  /\ sendLog = <<>>
  /\ wire = The500Response
  /\ respLog = <<1>>

\* C8 as claimed: an application that returned without sending
\* http.response.start leaves a 500 response on the wire.
C8_ReturnWithoutStart500 ==
  (app_state = "returned" /\ NoStartSent /\ NoBodySent) => wire = The500Response

\* C9: the first event receive() returns is the one http.request event with
\* the whole body and more_body false; every later event is http.disconnect,
\* and one is returned only once a final body event (more_body false) has been
\* processed; a receive() that waits has the request event behind it.
C9_ReceiveOrdering ==
  /\ Len(recvLog) + (IF recv_waiting THEN 1 ELSE 0) <= nrecv
  /\ recvLog # <<>> =>
       recvLog[1] = [type |-> "http.request", body |-> cur.body, more_body |-> FALSE]
  /\ \A i \in 2..Len(recvLog) : recvLog[i].type = "http.disconnect"
  /\ Len(recvLog) >= 2 =>
       \E j \in 1..Len(sendLog) :
         sendLog[j].type = "http.response.body" /\ ~sendLog[j].more_body
  /\ recv_waiting => recvLog # <<>>
  /\ (app_state = "running" /\ nrecv > 0 /\ ~recv_waiting) => Len(recvLog) = nrecv

C9_Witness ==
  /\ Len(recvLog) = 2
  /\ recvLog[1].type = "http.request"
  /\ recvLog[1].body = <<"h","i">>
  /\ recvLog[2].type = "http.disconnect"
  /\ response_complete

\* C10 as claimed: a receive() that waits when the peer is lost, the response
\* not complete, eventually returns http.disconnect (unless the application
\* itself ended first).
C10_DisconnectOnLoss ==
  (connLost /\ recv_waiting /\ ~response_complete)
    ~> \/ ~recv_waiting /\ recvLog # <<>> /\ recvLog[Len(recvLog)].type = "http.disconnect"
       \/ app_state # "running"

\* C11: in the ASGI loop a request is dispatched to the WebSocket handler
\* exactly when its method is GET, its Upgrade header is "websocket" in any
\* letter case and its Connection header contains "upgrade" in any letter
\* case, and as HTTP otherwise; the loop leaves the WebSocket handler only to
\* Closed, it does so whenever the application returns or raises, and a
\* closed connection reads no further request.
C11_WebSocketLeavesLoop ==
  [][ /\ (interface = "asgi" /\ pc = "ReadingRequest" /\ nread' = nread + 1) =>
           pc' = (IF /\ cur'.method = GET
                     /\ Lower(cur'.upgrade) = websocket
                     /\ Contains(Lower(cur'.connection), upgrade)
                    THEN "HandlingWebSocket" ELSE "HandlingHttp")
      /\ pc = "HandlingWebSocket" => pc' \in {"HandlingWebSocket", "Closed"}
      /\ (pc = "HandlingWebSocket" /\ app_state' # "running") => pc' = "Closed"
      /\ pc = "Closed" => (pc' = "Closed" /\ nread' = nread) ]_vars

C11_Witness ==
  /\ pc = "Closed"
  /\ cur = Req(GET, WebSocket, Upgrade, <<>>)
  /\ nread = 2
  /\ app_state = "raised"
  /\ ws_accepted
  /\ tasks = <<"cancelled">>

\* How many of the tokens are the status line of the given code, and how
\* many of the messages have the given type.
CountStatus(tokens, code) ==
  Len(SelectSeq(tokens, LAMBDA t : t.t = "status" /\ t.n = code))
CountType(log, type) == Len(SelectSeq(log, LAMBDA m : m.type = type))

\* C12: websocket.connect is the first event put on the queue and the first
\* the application receives; a 101 response, each with Upgrade: websocket,
\* Connection: Upgrade and Sec-WebSocket-Accept, is on the wire once for each
\* websocket.accept the application sent and never otherwise; no reader task
\* exists without a 101 response written before it, and no event after
\* websocket.connect is on the queue unless the application sent
\* websocket.accept and its 101 response was written.
C12_HandshakeOrdering ==
  /\ wsLog # <<>> /\ wsLog[1].type = "websocket.connect"
  /\ nrecv >= 1 => recvLog[1].type = "websocket.connect"
  /\ CountStatus(wire, 101) = CountType(sendLog, "websocket.accept")
  /\ \A i \in 1..Len(wire) :
       (wire[i].t = "status" /\ wire[i].n = 101) =>
         /\ Len(wire) >= i + 4
         /\ wire[i + 1] = HeaderLine(<<"U","p","g","r","a","d","e">>, websocket)
         /\ wire[i + 2] = HeaderLine(ConnectionName, <<"U","p","g","r","a","d","e">>)
         /\ wire[i + 3].t = "header" /\ wire[i + 3].s = SecWebSocketAccept
         /\ wire[i + 4] = CRLF
  /\ Len(tasks) <= CountStatus(wire, 101)
  /\ Len(wsLog) > 1 => (CountType(sendLog, "websocket.accept") >= 1 /\ tasks # <<>>)
  /\ \A i \in 2..Len(wsLog) : wsLog[i].type \in {"websocket.receive", "websocket.disconnect"}

C12_Witness ==
  /\ sendLog = <<WsAccept>>
  /\ wire = Switching101
  /\ tasks = <<"reading">>
  /\ Len(wsLog) = 2
  /\ wsLog[2].type = "websocket.receive"
  /\ recvLog = <<WsConnect>>

\* b"HTTP/1.1 403 Forbidden\r\nContent-Length: 13\r\n\r\n403 Forbidden"
The403Response ==
  <<StatusLine(403), HeaderLine(ContentLength, <<"1","3">>), CRLF,
    Data(<<"4","0","3"," ","F","o","r","b","i","d","d","e","n">>)>>

\* C13: when the application sends websocket.close and no websocket.accept
\* has taken effect, exactly the 403 Forbidden response with the body
\* "403 Forbidden" is written, and neither a close frame nor a 101 response;
\* the step starts no reader task and accepts nothing; and once the handler
\* is over the connection is closed.
C13_RejectWrites403 ==
  [][ /\ (sendLog' = Append(sendLog, WsClose) /\ ~ws_accepted) =>
           /\ wire' = wire \o The403Response
           /\ tasks' = tasks
           /\ ~ws_accepted'
           /\ ws_closed'
      /\ (pc = "HandlingWebSocket" /\ app_state' # "running") => pc' = "Closed"
      /\ (pc = "Closed") => pc' = "Closed" ]_vars

C13_Witness ==
  /\ sendLog = <<WsClose>>
  /\ wire = The403Response
  /\ tasks = <<>>
  /\ app_state = "returned"
  /\ pc = "Closed"

\* The events of one type put on the queue, and the frames of the given
\* opcodes the reader tasks read, both in order.
EventsOf(types) == SelectSeq(wsLog, LAMBDA e : e.type \in types)
FramesOf(opcodes) == SelectSeq(frameLog, LAMBDA f : f.opcode \in opcodes)

\* C14: the text and binary frames read are on the queue as websocket.receive
\* events, one each, in the order of arrival and with their payload; a close
\* frame puts one websocket.disconnect whose code is the first two bytes of
\* its payload (big-endian), or 1005 for a shorter payload, and no frame is
\* read after it; a websocket.disconnect with code 1006 is only enqueued for
\* a dead socket; and at most one websocket.disconnect is ever enqueued.
C14_FrameDelivery ==
  LET recvs == EventsOf({"websocket.receive"})
      discs == EventsOf({"websocket.disconnect"})
      datas == FramesOf({WS_OPCODE_TEXT, WS_OPCODE_BINARY})
      closes == FramesOf({WS_OPCODE_CLOSE})
  IN /\ Len(recvs) = Len(datas)
     /\ \A i \in 1..Len(recvs) :
          IF datas[i].opcode = WS_OPCODE_TEXT
            THEN recvs[i].kind = "text" /\ Utf8Encode(recvs[i].data) = datas[i].payload
            ELSE recvs[i].kind = "bytes" /\ recvs[i].data = datas[i].payload
     /\ \A i \in 1..Len(frameLog) :
          frameLog[i].opcode = WS_OPCODE_CLOSE =>
            /\ i = Len(frameLog)
            /\ discs # <<>>
            /\ discs[1].code = (IF Len(frameLog[i].payload) >= 4
                                  THEN HexVal(frameLog[i].payload[1]) * 4096
                                       + HexVal(frameLog[i].payload[2]) * 256
                                       + HexVal(frameLog[i].payload[3]) * 16
                                       + HexVal(frameLog[i].payload[4])
                                  ELSE 1005)
     /\ \A i \in 1..Len(discs) : discs[i].code = 1006 => connLost
     /\ Len(discs) <= 1

\* C15: when the lifespan handler goes on after the application sent
\* lifespan.startup.failed it exposes no shutdown operation and the process
\* exits non-zero; a process that exited non-zero never bound a listener;
\* with lifespan on the listener is bound only after the application sent
\* lifespan.startup.complete, and with lifespan off the application is never
\* called with a lifespan scope; and it is called at most once with one.
C15_StartupFailure ==
  [][ /\ (sup = "Startup" /\ sup' # "Startup" /\ "lifespan.startup.failed" \in lsSent) =>
           (shutdown_fn' = "None" /\ sup' = "Exited" /\ exit_code' = "nonzero")
      /\ exit_code' = "nonzero" => server' = "none"
      /\ (server = "none" /\ server' = "open" /\ lifespan) =>
           "lifespan.startup.complete" \in lsSent
      /\ (server' # "none" /\ ~lifespan) => app_calls' = 0
      /\ app_calls' <= 1 ]_vars

\* C16: when the application raised on the lifespan scope before it sent
\* lifespan.startup.complete, the lifespan handler goes on as after
\* lifespan.startup.failed: no shutdown operation, the process exits
\* non-zero, no listener is bound.
C16_StartupExceptionFails ==
  [][ (/\ sup = "Startup" /\ sup' # "Startup"
       /\ lifespan_task = "raised"
       /\ "lifespan.startup.complete" \notin lsSent) =>
        (shutdown_fn' = "None" /\ exit_code' = "nonzero" /\ server' = "none") ]_vars

\* How often an event was put on the lifespan queue.
CountEvent(event) == Len(SelectSeq(lsLog, LAMBDA e : e = event))
\* do_shutdown() has been called, and has returned.
HookCalled == \E i \in 1..Len(supLog) : supLog[i] = "hook"
HookReturned == \E i \in 1..Len(supLog) : supLog[i] = "hook_done"

\* C17: the shutdown operation puts exactly one lifespan.shutdown on the
\* queue; when it has returned the lifespan task runs no more, and the
\* warning was printed exactly when neither lifespan.shutdown.complete nor
\* lifespan.shutdown.failed had arrived; and once called the shutdown
\* operation eventually returns, whatever the application does.
C17_ShutdownReturns ==
  /\ [](/\ CountEvent("lifespan.shutdown") = (IF HookCalled THEN 1 ELSE 0)
        /\ HookReturned => lifespan_task # "running"
        /\ HookReturned => (warned <=> ~shutdown_complete)
        /\ ~HookReturned => ~warned)
  /\ (sup = "Hook") ~> HookReturned

C17_Witness ==
  /\ HookReturned
  /\ warned
  /\ lifespan_task = "cancelled"
  /\ lsLog = <<"lifespan.startup", "lifespan.shutdown">>
  /\ lifespan_queue = <<"lifespan.shutdown">>

\* C18: scope["state"] of the lifespan scope is the process-wide dict
\* itself; the scope of a request gets the contents the process-wide dict
\* has when the request is read, so with what the lifespan application set
\* before; and a step that changes the dict of one request's scope changes
\* neither the process-wide dict nor the dict of any other request's scope.
C18_StateIsolation ==
  [][ /\ lifespan_task' # "none" => lifespan_state' = StateRef
      /\ \A r \in Conns :
           (reqs[r] = "none" /\ reqs'[r] = "handling") =>
             /\ scope_state'[r] \notin {0, StateRef}
             /\ heap'[scope_state'[r]] = heap[StateRef]
      /\ \A r \in Conns :
           (reqs[r] = "handling" /\ heap'[scope_state'[r]] # heap[scope_state[r]]) =>
             /\ heap'[StateRef] = heap[StateRef]
             /\ \A q \in Conns \ {r} :
                  reqs[q] # "none" => heap'[scope_state'[q]] = heap[scope_state[q]] ]_vars

C18_Witness ==
  /\ lifespan_task = "running"
  /\ heap[StateRef]["db"] = "x"
  /\ \A r \in Conns : reqs[r] = "handling"
  /\ heap[scope_state[1]]["db"] = "y"
  /\ heap[scope_state[2]]["db"] = Absent

\* The steps of the supervisor after the stop event, in the order stated:
\* with a shutdown hook registered, and without.
ShutdownOrder ==
  IF shutdown_fn = "do_shutdown"
    THEN <<"close", "wait_closed", "hook", "hook_done", "flush", "unlink">>
    ELSE <<"close", "wait_closed", "flush", "unlink">>

\* C19: the steps the supervisor has taken are always the first ones of:
\* close the listener, wait for the server to close, run the lifespan
\* shutdown hook to its end if one is registered, flush, unlink the socket
\* path; none is taken before the stop event is set; and once the listener
\* is bound its socket path is gone only when the listener is closed and the
\* hook, if registered, has returned.
C19_ShutdownOrder ==
  /\ Len(supLog) <= Len(ShutdownOrder)
  /\ supLog = SubSeq(ShutdownOrder, 1, Len(supLog))
  /\ (supLog # <<>> \/ server = "closed") => stop_event
  /\ (server # "none" /\ ~path_exists) =>
       /\ server = "closed"
       /\ shutdown_fn = "do_shutdown" => HookReturned
       /\ supLog = ShutdownOrder

C19_Witness ==
  /\ interface = "asgi"
  /\ sup = "Exited"
  /\ ~path_exists
  /\ supLog = <<"close", "wait_closed", "hook", "hook_done", "flush", "unlink">>

\* C20: a connection is accepted only while the listener is open, and when
\* the process has exited every request whose handling had begun is done,
\* its response written in full.
C20_CooperativeShutdown ==
  [][ /\ \A r \in Conns : (reqs[r] = "none" /\ reqs'[r] = "handling") => server = "open"
      /\ sup' = "Exited" => \A r \in Conns : reqs'[r] \in {"none", "done"} ]_vars

\* The start_response call whose status and headers the response is to use:
\* the first, or a later one made with an error-info triple.
CallToUse(calls) ==
  IF Len(calls) >= 2 /\ calls[Len(calls)].exc THEN calls[Len(calls)] ELSE calls[1]

\* C24: for an application that calls start_response with a status that
\* parses, raises nothing itself and whose result iterates, the response
\* has the status and the headers of the first call, or of a later call made
\* with an error-info triple (nothing has been written by then, and nothing
\* is re-raised); a later call without error info changes neither.
C24_StartResponseRecords ==
  (/\ interface = "wsgi"
   /\ pc = "Writing"
   /\ wsgiApp.calls # <<>>
   /\ wsgiApp.calls[1].status # S_bad
   /\ ~wsgiApp.raises
   /\ ~wsgiApp.iterRaises) =>
    LET used == CallToUse(wsgiApp.calls)
    IN /\ wsgiResult.status_code = (IF used.status = S_200 THEN 200 ELSE 404)
       /\ wsgiResult.headers = used.headers

\* C27: when the first message the application sends is not
\* http.response.start, none of the application's body bytes is ever
\* written for the request, and when the handler is over the connection is
\* closed.
C27_BodyBeforeStartIsError ==
  (sendLog # <<>> /\ sendLog[1].type # "http.response.start") =>
    /\ \A i \in 1..Len(wire) :
         wire[i].t = "data" =>
           wire[i].s = <<"I","n","t","e","r","n","a","l"," ","S","e","r","v","e","r"," ",
                         "E","r","r","o","r">>
    /\ app_state # "running" => pc = "Closed"

\* C28: the step in which the event-driven HTTP application raises leaves
\* the connection closed, and a closed connection reads no further request.
C28_RaiseClosesConnection ==
  [][ /\ (interface = "asgi" /\ pc = "HandlingHttp" /\ app_state' = "raised") =>
           pc' = "Closed"
      /\ pc = "Closed" => (pc' = "Closed" /\ nread' = nread /\ cur' = cur) ]_vars

\* C30: once the WebSocket handler has returned, no reader task it started
\* is waiting to run or reading: each has returned, ended with an exception
\* or been cancelled and awaited.
C30_NoReaderLeftRunning ==
  (app_state \in {"returned", "raised"} /\ pc = "Closed") =>
    \A i \in 1..Len(tasks) : tasks[i] \in {"done", "crashed", "cancelled"}


\* C29: back-pressure on every body write.  When send() returns from an
\* http.response.body message, whatever its more_body, the writer's buffer is
\* not above _DRAIN_HIGH_WATER: the handler has waited for the drain.
C29_DrainAfterEachBody ==
  [][ (/\ pc = "HandlingHttp"
       /\ Len(sendLog') = Len(sendLog) + 1
       /\ sendLog'[Len(sendLog')].type = "http.response.body") => ~buffer_high' ]_vars


\* C21: no error escapes the connection loop.  Whatever bytes the peer
\* sends, once the handler has closed the connection it has returned
\* normally: no exception has left it.
C21_NoErrorEscapes == rd.closed => (rd.pc = "returned" /\ ~rd.raised)

\* The first _read_http_request of the connection has been made.
FirstRead == rd.pc \in {"dispatching", "closing"} /\ rd.n = 0
\* The value of a header of the input as the peer sent it, <<>> for none.
Sent(inp, name) ==
  RawGet([i \in 1..Len(inp.headers) |-> <<Lower(inp.headers[i][1]), inp.headers[i][2]>>],
         name, <<>>)
SentChunked(inp) ==
  /\ Sent(inp, content_length) = <<>>
  /\ Contains(Lower(Sent(inp, transfer_encoding)), chunked)
  /\ inp.kind = "chunked"

\* C22: request body selection.  With a Content-Length the body is exactly
\* that many bytes, also when Transfer-Encoding: chunked is sent with it;
\* otherwise with a Transfer-Encoding containing "chunked" in any case it
\* is the concatenation of the chunk payloads; otherwise it is empty.  The
\* bytes of the request and no others are consumed.
C22_BodySelection ==
  FirstRead =>
    LET inp == rd.input
        after == BodyBytes(inp) \o FollowBytes(inp)
        cl == Sent(inp, content_length)
    IN /\ (cl # <<>> /\ IntOf(cl) >= 0 /\ Len(after) >= IntOf(cl)) =>
            /\ rd.request.result = "request"
            /\ rd.request.body = Upto(after, IntOf(cl))
            /\ rd.stream = From(after, IntOf(cl))
       /\ SentChunked(inp) =>
            /\ rd.request.result = "request"
            /\ rd.request.body = Join(inp.payloads)
            /\ rd.stream = FollowBytes(inp)
       /\ (cl = <<>> /\ ~Contains(Lower(Sent(inp, transfer_encoding)), chunked)) =>
            /\ rd.request.result = "request"
            /\ rd.request.body = <<>>
            /\ rd.stream = after

\* C23: chunk extensions and trailers are discarded.  A chunked body whose
\* size lines carry an extension, or whose last chunk is followed by trailer
\* fields, is decoded to the concatenation of its payloads, and the stream
\* is left at the request that follows.
C23_ExtensionsAndTrailersDiscarded ==
  (FirstRead /\ SentChunked(rd.input) /\ (rd.input.ext # <<>> \/ rd.input.trailers > 0)) =>
    /\ rd.request.result = "request"
    /\ rd.request.body = Join(rd.input.payloads)
    /\ rd.stream = FollowBytes(rd.input)


\* C26: WebSocket frame round trip.  ws_build_frame emits an unmasked frame
\* with the 7-bit length below 126 bytes, the 16-bit length from 126 to 65535
\* and the 64-bit length from 65536; ws_read_frame returns for it fin = 1,
\* the same opcode and the same payload; and for a masked frame it returns
\* the payload unmasked with the repeating 4-byte key.
C26_FrameRoundTrip ==
  fr.pc = "read" =>
    /\ fr.out = FrameRead("frame", 1, fr.opcode, fr.payload)
    /\ fr.key = <<>> =>
         LET n == Len(fr.payload)
             b == fr.stream
         IN /\ b[1] = 128 + fr.opcode
            /\ b[2] < 128
            /\ n < 126 => (b[2] = n /\ Len(b) = 2 + n)
            /\ (n >= 126 /\ n <= 65535) =>
                 (b[2] = 126 /\ b[3] * 256 + b[4] = n /\ Len(b) = 4 + n)
            /\ n >= 65536 =>
                 /\ b[2] = 127
                 /\ SubSeq(b, 3, 6) = <<0, 0, 0, 0>>
                 /\ ((b[7] * 256 + b[8]) * 256 + b[9]) * 256 + b[10] = n
                 /\ Len(b) = 10 + n
            /\ SubSeq(b, Len(b) - n + 1, Len(b)) = fr.payload
C26_Witness ==
  /\ fr.pc = "read"
  /\ fr.key = <<>>
  /\ Len(fr.payload) = 126
  /\ fr.stream[2] = 126
  /\ fr.out.payload = fr.payload


\* The values of the headers of hl whose name is one of names, as they arrive.
Arrivals(hl, names) ==
  LET of == SelectSeq(hl, LAMBDA h : h[1] \in names)
  IN [i \in 1..Len(of) |-> of[i][2]]
\* The value a group of headers is given under the key HTTP_<key>.
Joined(values, key) ==
  JoinWith(values, IF key = COOKIE THEN <<";", " ">> ELSE <<",", " ">>)
NamesOf(hl) == { hl[i][1] : i \in 1..Len(hl) }
\* Content-Type and Content-Length are under their own keys alone, and
\* HTTP_PROXY is not there.
OwnKeysOnly ==
  /\ \A p \in en.environ : p[1] \notin {HTTP_ \o CONTENT_TYPE, HTTP_ \o CONTENT_LENGTH, HTTP_ \o PROXY}
  /\ \A p \in en.environ :
       /\ p[1] = CONTENT_TYPE => p[2] = RawGet(en.headers_list, content_type, <<>>)
       /\ p[1] = CONTENT_LENGTH => p[2] = RawGet(en.headers_list, content_length, <<>>)

\* C25: header translation of the synchronous interface.  A header whose
\* name in upper case, "-" replaced by "_", is other than CONTENT_TYPE,
\* CONTENT_LENGTH and PROXY is under HTTP_<that name>, with the values of all
\* the headers of that name so written joined as they arrive by ", ", and
\* HTTP_COOKIE by "; "; a header of another spelling of one of the three
\* names is under no key; Content-Type and Content-Length are under
\* CONTENT_TYPE and CONTENT_LENGTH alone and HTTP_PROXY is never there.
C25_HeaderTranslation ==
  en.pc = "built" =>
    LET hl == en.headers_list
        kept == { n \in NamesOf(hl) : UpperSnake(n) \notin {CONTENT_TYPE, CONTENT_LENGTH, PROXY} }
    IN /\ \A n \in kept :
            <<HTTP_ \o UpperSnake(n),
              Joined(Arrivals(hl, { m \in NamesOf(hl) : UpperSnake(m) = UpperSnake(n) }),
                     UpperSnake(n))>> \in en.environ
       /\ \A p \in en.environ :
            \/ p[1] \in {CONTENT_TYPE, CONTENT_LENGTH}
            \/ \E n \in kept : p[1] = HTTP_ \o UpperSnake(n)
       /\ OwnKeysOnly
C25_Witness ==
  /\ en.pc = "built"
  /\ <<HTTP_ \o COOKIE, <<"a","=","1",";"," ","b","=","2">>>> \in en.environ
  /\ <<CONTENT_TYPE, text_plain>> \in en.environ
\* C25 as stated: every header other than Content-Type, Content-Length and
\* Proxy is under HTTP_<its name in upper snake case>, with the values of the
\* headers of its name joined as they arrive.
C25_EveryOtherHeaderTranslated ==
  en.pc = "built" =>
    LET hl == en.headers_list
        others == NamesOf(hl) \ {content_type, content_length, <<"p","r","o","x","y">>}
    IN /\ \A n \in others :
            <<HTTP_ \o UpperSnake(n), Joined(Arrivals(hl, {n}), UpperSnake(n))>> \in en.environ
       /\ OwnKeysOnly


\* The application has sent a final body event for the request.
FinalBodySent ==
  \E i \in 1..Len(sendLog) :
    sendLog[i].type = "http.response.body" /\ ~sendLog[i].more_body

\* C35: the bytes written for one event-driven request are at most one
\* response.  At most one status line is written, and once the final body
\* event (more_body = false) has been processed nothing more is written for
\* the request, whatever the application sends after it.
C35_AtMostOneResponse ==
  [][ (pc = "HandlingHttp" /\ pc' = "HandlingHttp") =>
        /\ Len(StatusLines(wire')) <= 1
        /\ FinalBodySent => wire' = wire ]_vars

\* C36: whenever the event-driven connection loop goes back to reading a
\* next request, the response to the last one is complete: its status line
\* and headers were written and its body was terminated.
C36_KeepAliveAfterCompleteResponse ==
  [][ (interface = "asgi" /\ pc = "HandlingHttp" /\ pc' = "ReadingRequest") =>
        /\ response_started'
        /\ pending_headers' = <<>>
        /\ response_complete' ]_vars

\* C37: for a WebSocket upgrade request exactly one response head is
\* written: never two status lines, and one when the handler has returned.
C37_OneResponseHead ==
  (pc \in {"HandlingWebSocket", "Closed"} /\ IsWebsocket(cur)) =>
    /\ Len(StatusLines(wire)) <= 1
    /\ pc = "Closed" => Len(StatusLines(wire)) = 1

\* C38: no frame is written outside the open phase.  Every frame on the
\* wire comes after the 101 response, and no frame comes after the close
\* frame of the server.
C38_FramesInOpenPhaseOnly ==
  \A i \in 1..Len(wire) :
    wire[i].t = "frame" =>
      /\ \E j \in 1..(i - 1) : wire[j] = StatusLine(101)
      /\ \A j \in 1..(i - 1) : ~(wire[j].t = "frame" /\ wire[j].n = WS_OPCODE_CLOSE)

\* C39: when the reader stops on a frame, a close frame or a text frame
\* that is not valid UTF-8, a websocket.disconnect event has been put on the
\* queue.
C39_ReaderStopEnqueuesDisconnect ==
  (\E i \in 1..Len(frameLog) :
     \/ frameLog[i].opcode = WS_OPCODE_CLOSE
     \/ frameLog[i].opcode = WS_OPCODE_TEXT /\ ~Utf8Valid(frameLog[i].payload)) =>
    \E k \in 1..Len(wsLog) : wsLog[k].type = "websocket.disconnect"


\* C40: lifespan startup ends when the lifespan invocation of the
\* application ends.  While _handle_asgi_lifespan waits for startup, an
\* application that has returned or raised has left startup_complete set, so
\* the wait is over and the server binds or exits.
C40_StartupEndsWithApplication ==
  (sup = "Startup" /\ lifespan_task \in {"returned", "raised"}) => startup_complete


\* C32: the queue between the frame reader and the application is bounded.
\* With a capacity that the frames of the peer can reach, the reader has
\* suspended before the queue holds the connect event and every frame the
\* peer may send: fewer events than that are waiting at any time.
C32_QueueBounded == Len(receive_queue) <= MaxFrames


\* The frames on the wire of the given opcodes, in the order written.
WireFrames(opcodes) == SelectSeq(wire, LAMBDA t : t.t = "frame" /\ t.n \in opcodes)
\* The websocket.send messages of the application and the pings of the
\* peer, in their order.
DataSends == SelectSeq(sendLog, LAMBDA m : m.type = "websocket.send" /\ m.kind \in {"text", "bytes"})
Pings == SelectSeq(frameLog, LAMBDA f : f.opcode = WS_OPCODE_PING)

\* C31: WebSocket write atomicity.  However the application task and the
\* reader task interleave, the wire holds whole frames: the data frames are
\* one for one and in order the frames of the websocket.send messages, the
\* pong frames those of the pings, each with its own payload, every close
\* frame is one of a websocket.close, and no other bytes lie between the
\* frames than the response heads.
C31_FramesWrittenWhole ==
  pc = "HandlingWebSocket" =>
    /\ WireFrames({WS_OPCODE_TEXT, WS_OPCODE_BINARY}) =
         [i \in 1..Len(DataSends) |->
            IF DataSends[i].kind = "text"
              THEN Tok("frame", WS_OPCODE_TEXT, Utf8Encode(DataSends[i].data), <<>>)
              ELSE Tok("frame", WS_OPCODE_BINARY, DataSends[i].data, <<>>)]
    /\ WireFrames({WS_OPCODE_PONG}) =
         [i \in 1..Len(Pings) |-> Tok("frame", WS_OPCODE_PONG, Pings[i].payload, <<>>)]
    /\ Len(WireFrames({WS_OPCODE_CLOSE})) <= CountType(sendLog, "websocket.close")
    /\ \A i \in 1..Len(wire) :
         wire[i].t = "data" => wire[i].s \in {Forbidden, InternalServerError}
C31_Witness ==
  /\ pc = "HandlingWebSocket"
  /\ Len(WireFrames({WS_OPCODE_PONG})) = 1
  /\ Len(WireFrames({WS_OPCODE_TEXT})) = 1


\* The chunks of the body producer, one after the other.
RECURSIVE Concatenation(_)
Concatenation(chunks) ==
  IF chunks = <<>> THEN <<>> ELSE Head(chunks) \o Concatenation(Tail(chunks))
\* The application returned its body producer.
ProducerReturned(b) == ~b.raises /\ ~RunCalls(<<>>, b.calls, b.propagate).raised

\* C33: Synchronous body collection and close hook.  When the executor has
\* run the application and it returned a body producer: a close hook that
\* is present was called exactly once, whether or not the iteration raised
\* or start_response was called; a response taken from the application has
\* as its body the chunks in order; and a failing close hook neither changes
\* nor prevents the response: the result is the one of the same application
\* with a close hook that does not fail, and the loop goes on to write it.
C33_BodyCollectedAndClosed ==
  [][ (pc = "InExecutor" /\ pc' # "InExecutor" /\ ProducerReturned(wsgiApp')) =>
        /\ wsgiResult'.closes = (IF wsgiApp'.hasClose THEN 1 ELSE 0)
        /\ (wsgiResult'.status_code # 500 /\ ~wsgiResult'.raised) =>
             wsgiResult'.body = Concatenation(wsgiApp'.chunks)
        /\ pc' = "Writing"
        /\ [status_code |-> wsgiResult'.status_code, headers |-> wsgiResult'.headers,
            body |-> wsgiResult'.body]
             = LET ok == CallWsgiApp([wsgiApp' EXCEPT !.closeRaises = FALSE])
               IN [status_code |-> ok.status_code, headers |-> ok.headers, body |-> ok.body]
        /\ ~wsgiResult'.raised ]_vars


\* P of the pool: min(128, 8 * cpu_count + 16), an unknown count taken as 1.
PoolLimit ==
  LET n == IF pool.cpu = 0 THEN 1 ELSE pool.cpu
  IN IF 8 * n + 16 < 128 THEN 8 * n + 16 ELSE 128
\* A connection has no call pending: its request can be read and submitted.
SomeConnectionReads == pool.conns - pool.queued - pool.running > 0
AllWorkersBusy == pool.running = PoolLimit

\* C34: Synchronous worker pool.  Every call that runs is run by a worker
\* thread of the pool, never by the event loop; at most P calls run at a
\* time; while calls run, and also when all P workers are busy, the event
\* loop can accept a connection and can read and submit a request; a
\* submission made while all P workers are busy starts no worker and puts
\* the call on the queue; and, if calls that run return, a call on the queue
\* is eventually run.
C34_WorkerPool ==
  /\ [](/\ pool.running <= pool.threads
        /\ pool.threads <= PoolLimit
        /\ pool.running <= PoolLimit
        /\ (pool.running > 0 /\ pool.conns < MaxPoolConns) => ENABLED PoolAccept
        /\ (pool.running > 0 /\ SomeConnectionReads) => ENABLED PoolSubmit(FALSE))
  /\ [][ (AllWorkersBusy /\ pool'.queued = pool.queued + 1) =>
           /\ pool'.threads = pool.threads
           /\ pool'.running = pool.running ]_vars
  /\ (WF_vars(PoolWorkerReturns) => (pool.tracked = "queued" ~> pool.tracked = "running"))
C34_Witness ==
  /\ pool.tracked = "running"
  /\ pool.conns > PoolLimit

====
